---------------------------- MODULE Spec2Model ----------------------------
(***************************************************************************)
(* A model of the tree-walking interpreter of the SVG drawing language     *)
(* (src/app/lib/svgLang/interpreter.ts).                                   *)
(*                                                                         *)
(* The interpreter is modelled as an abstract machine.  Interpreter.exec   *)
(* and Interpreter.eval are recursive TypeScript methods; the machine      *)
(* keeps their pending work on an explicit continuation stack (kont) and   *)
(* their intermediate results on a value stack (vals), so that every       *)
(* call of exec or eval, and every point at which one of them resumes      *)
(* after a nested call, is one step of the machine.  Environments (JS      *)
(* Map objects linked by __parent) live in an arena (frames) and are       *)
(* referred to by index, which keeps their sharing by reference.           *)
(*                                                                         *)
(* A second specification, PreviewSpec, models the live preview that       *)
(* hosts the interpreter (src/app/SvgLivePreview.tsx) and its worker       *)
(* (src/unnamed/part_000).                                                 *)
(***************************************************************************)
EXTENDS Integers, Sequences, FiniteSets, TLC

(***************************************************************************)
(* Bounds of the model.                                                    *)
(***************************************************************************)
\* No run of the machine makes more than MaxSteps calls of exec and eval.
MaxSteps == 130
\* The execution budget a caller may hand to the entry point.
SmallBudget == 25
\* The source text of the live preview is changed at most MaxEdits times.
MaxEdits == 2

(***************************************************************************)
(* Runtime values: type Value, interpreter.ts:15.  A number is an exact    *)
(* fraction n/d in lowest terms with d > 0 (every number the modelled      *)
(* programs compute is an integer or a half, which a double holds          *)
(* exactly).  A function value carries the index of its closure            *)
(* environment and an identity (JS objects are compared by reference).     *)
(***************************************************************************)
Abs(i) == IF i < 0 THEN -i ELSE i

RECURSIVE GCD(_, _)
GCD(a, b) == IF b = 0 THEN a ELSE GCD(b, a % b)

NumQ(n, d) ==
    LET g == GCD(Abs(n), d)
    IN  [t |-> "num", n |-> n \div g, d |-> d \div g]
NumV(n) == [t |-> "num", n |-> n, d |-> 1]
StrV(s) == [t |-> "str", s |-> s]
BoolV(b) == [t |-> "bool", b |-> b]
NullV == [t |-> "null"]
FnV(params, body, closure, id) ==
    [t |-> "fn", params |-> params, body |-> body, closure |-> closure, id |-> id]
\* JS undefined: what Map.get and getEnv give for a name that is not bound.
Undef == [t |-> "undef"]

isNumber(v) == v.t = "num"
isString(v) == v.t = "str"
isBool(v) == v.t = "bool"
isFn(v) == v.t = "fn"

\* JS typeof: null and function objects are both "object".
TypeOf(v) ==
    CASE v.t = "num" -> "number"
      [] v.t = "str" -> "string"
      [] v.t = "bool" -> "boolean"
      [] OTHER -> "object"

\* Math.floor
Floor(v) == v.n \div v.d

\* Math.max(0, Math.floor(count)): the number of runs of a counted loop.
LoopCount(v) == IF Floor(v) < 0 THEN 0 ELSE Floor(v)

\* String(v): the text of a value, as print and string concatenation use it.
NumToString(v) ==
    IF v.d = 1 THEN ToString(v.n)
    ELSE IF v.d = 2
         THEN (IF v.n < 0 THEN "-" ELSE "") \o ToString(Abs(v.n) \div 2) \o ".5"
         ELSE ToString(v.n) \o "/" \o ToString(v.d)
String(v) ==
    CASE v.t = "num" -> NumToString(v)
      [] v.t = "str" -> v.s
      [] v.t = "bool" -> (IF v.b THEN "true" ELSE "false")
      [] v.t = "null" -> "null"
      [] OTHER -> "[object Object]"

truthy(v) ==
    CASE v.t = "bool" -> v.b
      [] v.t = "num" -> v.n # 0
      [] v.t = "str" -> v.s # ""
      [] OTHER -> FALSE

eq(a, b) ==
    IF TypeOf(a) # TypeOf(b) THEN FALSE
    ELSE CASE a.t = "num" -> a.n = b.n /\ a.d = b.d
           [] a.t = "str" -> a.s = b.s
           [] a.t = "bool" -> a.b = b.b
           [] a.t = "null" -> b.t = "null"
           [] OTHER -> b.t = "fn" /\ a.id = b.id

NumAdd(a, b) == NumQ(a.n * b.d + b.n * a.d, a.d * b.d)
NumSub(a, b) == NumQ(a.n * b.d - b.n * a.d, a.d * b.d)
NumMul(a, b) == NumQ(a.n * b.n, a.d * b.d)
\* a / b and a % b for b # 0 (no modelled program divides by zero)
NumDiv(a, b) ==
    IF b.n < 0 THEN NumQ(-(a.n * b.d), a.d * (-b.n)) ELSE NumQ(a.n * b.d, a.d * b.n)
Trunc(v) == IF v.n < 0 THEN -((-v.n) \div v.d) ELSE v.n \div v.d
NumRem(a, b) == NumSub(a, NumMul(b, NumV(Trunc(NumDiv(a, b)))))
NumLt(a, b) == a.n * b.d < b.n * a.d
NumLe(a, b) == a.n * b.d <= b.n * a.d


(***************************************************************************)
(* The syntax tree: types Stmt, Expr and FnParam, interpreter.ts:16 and    *)
(* 233-262.  An optional field that is absent holds NoExpr (an             *)
(* expression), "" (a name) or <<>> (the else body).                       *)
(***************************************************************************)
NoExpr == [k |-> "None"]
Num(n) == [k |-> "Num", v |-> NumV(n)]
Half(n) == [k |-> "Num", v |-> NumQ(n, 2)]
Str(s) == [k |-> "Str", v |-> s]
Bool(b) == [k |-> "Bool", v |-> b]
Var(name) == [k |-> "Var", name |-> name]
Call(callee, args) == [k |-> "Call", callee |-> callee, args |-> args]
Unary(op, right) == [k |-> "Unary", op |-> op, right |-> right]
Binary(op, left, right) == [k |-> "Binary", op |-> op, left |-> left, right |-> right]
Group(inner) == [k |-> "Group", inner |-> inner]
Arg(expr) == [name |-> "", expr |-> expr]
NamedArg(name, expr) == [name |-> name, expr |-> expr]
Param(name) == [name |-> name, default |-> NoExpr]
ParamDef(name, expr) == [name |-> name, default |-> expr]

VarDecl(name, expr) == [k |-> "VarDecl", name |-> name, expr |-> expr]
Assign(name, expr) == [k |-> "Assign", name |-> name, expr |-> expr]
PrintStmt(expr) == [k |-> "Print", expr |-> expr]
RepeatTimes(count, asVar, body) ==
    [k |-> "RepeatTimes", count |-> count, asVar |-> asVar, body |-> body]
RepeatUntil(update, cond, body) ==
    [k |-> "RepeatUntil", update |-> update, cond |-> cond, body |-> body]
If(branches, elseBody) == [k |-> "If", branches |-> branches, elseBody |-> elseBody]
Branch(cond, body) == [cond |-> cond, body |-> body]
FnDef(name, params, body) ==
    [k |-> "FnDef", name |-> name, params |-> params, body |-> body]
Return(expr) == [k |-> "Return", expr |-> expr]
StartSvg(width, height) == [k |-> "StartSvg", width |-> width, height |-> height]
FinishSvg == [k |-> "FinishSvg"]
DrawCircle(x, y, r) == [k |-> "DrawCircle", x |-> x, y |-> y, r |-> r]
DrawRect(x, y, w, h) == [k |-> "DrawRect", x |-> x, y |-> y, w |-> w, h |-> h]
DrawLine(x1, y1, x2, y2) == [k |-> "DrawLine", x1 |-> x1, y1 |-> y1, x2 |-> x2, y2 |-> y2]
DrawText(text, x, y, size) == [k |-> "DrawText", text |-> text, x |-> x, y |-> y, size |-> size]
UseFill(color) == [k |-> "UseFill", color |-> color]
UseStroke(color, width) == [k |-> "UseStroke", color |-> color, width |-> width]
NoFill == [k |-> "NoFill"]
NoStroke == [k |-> "NoStroke"]

(***************************************************************************)
(* The Lexer, interpreter.ts:101-222.  A source text is given as the       *)
(* sequence of its lexemes (words, numerals, quoted strings, punctuation   *)
(* and newlines), written with one space between the lexemes of a line     *)
(* and no other blanks or comments.  tokenize gives each lexeme its        *)
(* TokType, its text and its position; the column the Lexer records for a  *)
(* token is the column just past its last character, the line and column   *)
(* of a Newline token are those of the line it ends and 1.                 *)
(***************************************************************************)
Word(s) == [lx |-> "word", s |-> s, cs |-> <<>>]
Punct(s) == [lx |-> "punct", s |-> s, cs |-> <<>>]
Quoted(s) == [lx |-> "string", s |-> s, cs |-> <<>>]
\* a numeral, given by its characters (digits and at most one '.')
Numeral(cs) == [lx |-> "number", s |-> "", cs |-> cs]
Newline == [lx |-> "newline", s |-> "", cs |-> <<>>]
Words(ss) == [i \in 1..Len(ss) |-> Word(ss[i])]

\* String.toLowerCase on the words of the modelled sources (which are in lower
\* case but for these)
toLowerCase(s) ==
    CASE s = "END" -> "end"
      [] s = "End" -> "end"
      [] s = "Print" -> "print"
      [] s = "NOT" -> "not"
      [] OTHER -> s

\* The TokType of an operator or punctuation mark (the switch of lines 186-218).
PunctType(s) ==
    CASE s = ":" -> "Colon" [] s = "(" -> "LParen" [] s = ")" -> "RParen"
      [] s = "," -> "Comma" [] s = "+" -> "Plus" [] s = "-" -> "Minus"
      [] s = "*" -> "Star" [] s = "/" -> "Slash" [] s = "%" -> "Percent"
      [] s = "==" -> "Eq" [] s = "=" -> "Assign" [] s = "!=" -> "Ne"
      [] s = "<=" -> "Le" [] s = "<" -> "Lt" [] s = ">=" -> "Ge"
      [] OTHER -> "Gt"

RECURSIVE Concat(_)
Concat(cs) == IF cs = <<>> THEN "" ELSE Head(cs) \o Concat(Tail(cs))

\* The token of a lexeme that ends just before column col of a line.
makeToken(x, line, col) ==
    CASE x.lx = "word" ->
            [t |-> IF toLowerCase(x.s) = "end" THEN "End" ELSE "Ident",
             v |-> x.s, cs |-> <<>>, line |-> line, col |-> col]
      [] x.lx = "number" ->
            [t |-> "Number", v |-> Concat(x.cs), cs |-> x.cs, line |-> line, col |-> col]
      [] x.lx = "string" ->
            [t |-> "String", v |-> x.s, cs |-> <<>>, line |-> line, col |-> col]
      [] OTHER ->
            [t |-> PunctType(x.s), v |-> "", cs |-> <<>>, line |-> line, col |-> col]

\* The number of characters of a lexeme in the source text.
Width(x) ==
    CASE x.lx = "number" -> Len(x.cs)
      [] x.lx = "string" -> Len(x.s) + 2
      [] OTHER -> Len(x.s)

\* Lexer.tokenize from lexeme k on; col is the Lexer's column and first tells
\* that no lexeme of the line has been read yet.
RECURSIVE Lex(_, _, _, _, _)
Lex(src, k, line, col, first) ==
    IF k > Len(src)
    THEN <<[t |-> "EOF", v |-> "", cs |-> <<>>, line |-> line, col |-> col]>>
    ELSE IF src[k].lx = "newline"
    THEN <<[t |-> "Newline", v |-> "", cs |-> <<>>, line |-> line, col |-> 1]>>
         \o Lex(src, k + 1, line + 1, 1, TRUE)
    ELSE LET after == (IF first THEN col ELSE col + 1) + Width(src[k])
         IN  <<makeToken(src[k], line, after)>> \o Lex(src, k + 1, line, after, FALSE)

tokenize(src) == Lex(src, 1, 1, 1, TRUE)

(***************************************************************************)
(* The Parser, interpreter.ts:269-741.  Its methods are operators of the   *)
(* token list and the index i of the next token (this.i, counted from 1);  *)
(* each gives a result: what was parsed and the index after it, or the     *)
(* message of the RuntimeError thrown.                                     *)
(***************************************************************************)
Ok(v, i) == [ok |-> TRUE, v |-> v, i |-> i, msg |-> ""]
Err(msg, i) == [ok |-> FALSE, v |-> <<>>, i |-> i, msg |-> msg]

peek(toks, i) == IF i <= Len(toks) THEN toks[i] ELSE toks[Len(toks)]
isKW(tok, kw) == tok.t = "Ident" /\ toLowerCase(tok.v) = kw
\* `${this.peek().line}:${this.peek().col}`
Where(toks, i) == ToString(peek(toks, i).line) \o ":" \o ToString(peek(toks, i).col)

expect(toks, i, t, msg) ==
    IF peek(toks, i).t = t THEN Ok(toks[i], i + 1)
    ELSE Err("Parse error: " \o msg \o " at " \o Where(toks, i), i)

expectKW(toks, i, kw, msg) ==
    IF isKW(peek(toks, i), kw) THEN Ok(kw, i + 1)
    ELSE Err("Parse error: expected '" \o kw \o "' " \o msg \o " at " \o Where(toks, i), i)

\* Number(tok.v): the value of a numeral, read digit by digit
RECURSIVE Digits(_, _, _, _)
Digits(cs, n, d, dot) ==
    IF cs = <<>> THEN NumQ(n, d)
    ELSE IF Head(cs) = "." THEN Digits(Tail(cs), n, d, TRUE)
    ELSE Digits(Tail(cs), n * 10 + (CHOOSE k \in 0..9 : ToString(k) = Head(cs)),
                IF dot THEN d * 10 ELSE d, dot)
Number(cs) == Digits(cs, 0, 1, FALSE)

RECURSIVE expression(_, _), BinaryLevel(_, _, _), BinaryLoop(_, _, _, _)
RECURSIVE parseUnary(_, _), parsePrimary(_, _), ArgLoop(_, _, _)
RECURSIVE ParamLoop(_, _, _), Phrase(_, _, _, _)
RECURSIVE statement(_, _), BlockLoop(_, _, _), IfRest(_, _, _)

\* What follows a call that may throw: the rest of the method, Rest, if it
\* returned, and the same throw if it threw.
Bind(r, Rest(_)) == IF r.ok THEN Rest(r) ELSE r

\* The steps of a statement of fixed form: an expected keyword, an expected token,
\* an expected identifier (whose text is kept) or an expression (whose tree is kept)
KwP(kw, msg) == [p |-> "kw", a |-> kw, msg |-> msg]
TokP(t, msg) == [p |-> "tok", a |-> t, msg |-> msg]
ExprP == [p |-> "expr", a |-> "", msg |-> ""]

PhraseStep(toks, i, h) ==
    CASE h.p = "kw" -> expectKW(toks, i, h.a, h.msg)
      [] h.p = "tok" -> expect(toks, i, h.a, h.msg)
      [] OTHER -> expression(toks, i)

Got(got, h, r) ==
    IF h.p = "expr" THEN Append(got, r.v)
    ELSE IF h.p = "tok" /\ h.a = "Ident" THEN Append(got, r.v.v)
    ELSE got

\* The run of expectKW, expect and expression calls of such a statement, in order;
\* the first that throws ends it.
Phrase(toks, i, phrase, got) ==
    IF phrase = <<>> THEN Ok(got, i)
    ELSE Bind(PhraseStep(toks, i, Head(phrase)),
              LAMBDA r : Phrase(toks, r.i, Tail(phrase), Got(got, Head(phrase), r)))

\* parseArgList after its '(' when the list is not empty: the while (true) loop
ArgMore(toks, i, args) ==
    IF peek(toks, i).t = "Comma" THEN ArgLoop(toks, i + 1, args) ELSE Ok(args, i)

ArgLoop(toks, i, args) ==
    IF peek(toks, i).t = "Ident" /\ i + 1 <= Len(toks) /\ toks[i + 1].t = "Assign"
    THEN Bind(expression(toks, i + 2),
              LAMBDA e : ArgMore(toks, e.i, Append(args, NamedArg(toks[i].v, e.v))))
    ELSE Bind(expression(toks, i),
              LAMBDA e : ArgMore(toks, e.i, Append(args, Arg(e.v))))

parseArgList(toks, i) ==
    Bind(expect(toks, i, "LParen", "after function name"),
         LAMBDA l :
            Bind(IF peek(toks, l.i).t # "RParen" THEN ArgLoop(toks, l.i, <<>>)
                 ELSE Ok(<<>>, l.i),
                 LAMBDA as :
                    Bind(expect(toks, as.i, "RParen", "closing ')'"),
                         LAMBDA r : Ok(as.v, r.i))))

\* parseParamList after its '(' when the list is not empty
ParamMore(toks, i, params) ==
    IF peek(toks, i).t = "Comma" THEN ParamLoop(toks, i + 1, params) ELSE Ok(params, i)

ParamLoop(toks, i, params) ==
    Bind(expect(toks, i, "Ident", "parameter name"),
         LAMBDA n :
            Bind(IF peek(toks, n.i).t = "Assign" THEN expression(toks, n.i + 1)
                 ELSE Ok(NoExpr, n.i),
                 LAMBDA d : ParamMore(toks, d.i,
                                Append(params, [name |-> n.v.v, default |-> d.v]))))

parseParamList(toks, i) ==
    Bind(expect(toks, i, "LParen", "after function name"),
         LAMBDA l :
            Bind(IF peek(toks, l.i).t # "RParen" THEN ParamLoop(toks, l.i, <<>>)
                 ELSE Ok(<<>>, l.i),
                 LAMBDA ps :
                    Bind(expect(toks, ps.i, "RParen", "closing ')'"),
                         LAMBDA r : Ok(ps.v, r.i))))

\* Expressions.  Levels of precedence, low to high: 1 or, 2 and, 3 equality,
\* 4 comparison, 5 term, 6 factor; then unary and primary.
LevelOp(lv, tok) ==
    CASE lv = 1 -> IF isKW(tok, "or") THEN "or" ELSE ""
      [] lv = 2 -> IF isKW(tok, "and") THEN "and" ELSE ""
      [] lv = 3 -> IF tok.t = "Eq" THEN "==" ELSE IF tok.t = "Ne" THEN "!=" ELSE ""
      [] lv = 4 -> IF tok.t = "Lt" THEN "<" ELSE IF tok.t = "Le" THEN "<="
                   ELSE IF tok.t = "Gt" THEN ">" ELSE IF tok.t = "Ge" THEN ">=" ELSE ""
      [] lv = 5 -> IF tok.t = "Plus" THEN "+" ELSE IF tok.t = "Minus" THEN "-" ELSE ""
      [] OTHER -> IF tok.t = "Star" THEN "*" ELSE IF tok.t = "Slash" THEN "/"
                  ELSE IF tok.t = "Percent" THEN "%" ELSE ""

\* The operand of a level: the next level, parseUnary for the last
Operand(toks, lv, i) ==
    IF lv = 6 THEN parseUnary(toks, i) ELSE BinaryLevel(toks, lv + 1, i)

\* let left = <next level>; while (<an operator of the level>) { right = <next
\* level>; left = { k: "Binary", op, left, right } }
BinaryLevel(toks, lv, i) ==
    Bind(Operand(toks, lv, i), LAMBDA l : BinaryLoop(toks, lv, l.v, l.i))

BinaryLoop(toks, lv, left, i) ==
    IF LevelOp(lv, peek(toks, i)) = "" THEN Ok(left, i)
    ELSE Bind(Operand(toks, lv, i + 1),
              LAMBDA r : BinaryLoop(toks, lv,
                                    Binary(LevelOp(lv, peek(toks, i)), left, r.v), r.i))

\* parseOr is level 1; parseAnd .. parseFactor are the levels 2 .. 6 it descends to.
parseOr(toks, i) == BinaryLevel(toks, 1, i)
expression(toks, i) == parseOr(toks, i)

parseUnary(toks, i) ==
    IF peek(toks, i).t = "Minus" \/ isKW(peek(toks, i), "not")
    THEN Bind(parseUnary(toks, i + 1),
              LAMBDA r : Ok(Unary(IF peek(toks, i).t = "Minus" THEN "neg" ELSE "not", r.v),
                            r.i))
    ELSE parsePrimary(toks, i)

parsePrimary(toks, i) ==
    LET tok == peek(toks, i)
    IN  CASE tok.t = "Number" -> Ok([k |-> "Num", v |-> Number(tok.cs)], i + 1)
          [] tok.t = "String" -> Ok(Str(tok.v), i + 1)
          [] isKW(tok, "true") -> Ok(Bool(TRUE), i + 1)
          [] isKW(tok, "false") -> Ok(Bool(FALSE), i + 1)
          [] tok.t = "Ident" /\ ~isKW(tok, "true") /\ ~isKW(tok, "false") ->
                IF peek(toks, i + 1).t = "LParen"
                THEN Bind(parseArgList(toks, i + 1), LAMBDA as : Ok(Call(tok.v, as.v), as.i))
                ELSE Ok(Var(tok.v), i + 1)
          [] tok.t = "LParen" ->
                Bind(expression(toks, i + 1),
                     LAMBDA e : Bind(expect(toks, e.i, "RParen", "closing ')'"),
                                     LAMBDA r : Ok(Group(e.v), r.i)))
          [] OTHER -> Err("Unexpected token in expression at " \o Where(toks, i), i)

\* Parser.block: statements up to `end`, `otherwise` or the end of the text
BlockLoop(toks, i, out) ==
    LET tok == peek(toks, i)
    IN  IF tok.t = "EOF" \/ tok.t = "End" \/ isKW(tok, "otherwise") THEN Ok(out, i)
        ELSE IF tok.t = "Newline" THEN BlockLoop(toks, i + 1, out)
        ELSE Bind(statement(toks, i), LAMBDA s : BlockLoop(toks, s.i, Append(out, s.v)))
block(toks, i) == BlockLoop(toks, i, <<>>)

\* A block and the `end` that closes it
BlockEnd(toks, i, msg) ==
    Bind(block(toks, i),
         LAMBDA b : Bind(expect(toks, b.i, "End", msg), LAMBDA e : Ok(b.v, e.i)))

simpleUpdateStmt(toks, i) ==
    LET tok == peek(toks, i)
    IN  IF isKW(tok, "let")
        THEN Bind(Phrase(toks, i + 1,
                         <<TokP("Ident", "variable name after 'let'"),
                           KwP("be", "after variable name"), ExprP>>, <<>>),
                  LAMBDA r : Ok(VarDecl(r.v[1], r.v[2]), r.i))
        ELSE IF isKW(tok, "set")
        THEN Bind(Phrase(toks, i + 1,
                         <<TokP("Ident", "variable name after 'set'"),
                           KwP("to", "after variable name"), ExprP>>, <<>>),
                  LAMBDA r : Ok(Assign(r.v[1], r.v[2]), r.i))
        ELSE IF tok.t = "Ident"
        THEN Bind(Phrase(toks, i + 1, <<KwP("be", "after variable name"), ExprP>>, <<>>),
                  LAMBDA r : Ok(Assign(tok.v, r.v[1]), r.i))
        ELSE Err("Expected update statement before 'until' at " \o Where(toks, i), i)

\* The `otherwise if` branches, the `otherwise` branch and the closing `end` of an if
IfRest(toks, i, branches) ==
    IF isKW(peek(toks, i), "otherwise")
    THEN IF isKW(peek(toks, i + 1), "if")
         THEN Bind(Phrase(toks, i + 2,
                          <<ExprP, TokP("Colon", "':' after otherwise if condition")>>, <<>>),
                   LAMBDA c :
                      Bind(block(toks, c.i),
                           LAMBDA b : IfRest(toks, b.i,
                                             Append(branches, Branch(c.v[1], b.v)))))
         ELSE Bind(expect(toks, i + 1, "Colon", "':' after otherwise"),
                   LAMBDA c : Bind(BlockEnd(toks, c.i, "to close 'if' block"),
                                   LAMBDA b : Ok(If(branches, b.v), b.i)))
    ELSE Bind(expect(toks, i, "End", "to close 'if' block"),
              LAMBDA e : Ok(If(branches, <<>>), e.i))

\* catch { this.i = save }: a result that is not ok stands for the rollback
Rollback(r, saveI) == IF r.ok THEN r ELSE Err("", saveI)
\* try A, and B if A was rolled back
OrElse(a, b) == IF a.ok THEN a ELSE b

\* form A of repeat, tried first: <count> times [as <ident>]: block end; with no
\* `times` after the count, or with an error anywhere in it, it is rolled back.
RepeatTimesForm(toks, saveI) ==
    Rollback(
        Bind(expression(toks, saveI),
             LAMBDA count :
                IF ~isKW(peek(toks, count.i), "times") THEN Err("", saveI)
                ELSE Bind(IF isKW(peek(toks, count.i + 1), "as")
                          THEN expect(toks, count.i + 2, "Ident", "loop index after 'as'")
                          ELSE Ok([v |-> ""], count.i + 1),
                          LAMBDA n :
                             Bind(expect(toks, n.i, "Colon", "':' to start loop body"),
                                  LAMBDA c :
                                     Bind(BlockEnd(toks, c.i, "to close 'repeat ... times'"),
                                          LAMBDA b :
                                             Ok(RepeatTimes(count.v, n.v.v, b.v), b.i))))),
        saveI)

\* form B of repeat: <update> until <cond>: block end
RepeatUntilForm(toks, saveI) ==
    Bind(simpleUpdateStmt(toks, saveI),
         LAMBDA u :
            Bind(Phrase(toks, u.i,
                        <<KwP("until", "in 'repeat ... until ...'"), ExprP,
                          TokP("Colon", "':' to start loop body")>>, <<>>),
                 LAMBDA c :
                    Bind(BlockEnd(toks, c.i, "to close 'repeat ... until'"),
                         LAMBDA b : Ok(RepeatUntil(u.v, c.v[1], b.v), b.i))))

\* The token text an "Unexpected token" message shows: tok.v ?? TokType[tok.t]
TokenText(tok) == IF tok.t \in {"Ident", "End", "Number", "String"} THEN tok.v ELSE tok.t

\* The point (x, y) of a drawing statement
PointP(first, mid, last) ==
    <<TokP("LParen", first), ExprP, TokP("Comma", mid), ExprP, TokP("RParen", last)>>

\* The phrase after the first keyword of a statement of fixed form
StatementPhrase(kw) ==
    CASE kw = "let" -> <<TokP("Ident", "variable name after 'let'"),
                         KwP("be", "after variable name in 'let'"), ExprP>>
      [] kw = "set" -> <<TokP("Ident", "variable name after 'set'"),
                         KwP("to", "after variable name in 'set'"), ExprP>>
      [] kw = "print" -> <<ExprP>>
      [] kw = "start" -> <<KwP("svg", "after 'start'"), KwP("width", "after 'start svg'"),
                           ExprP, KwP("height", "after width value"), ExprP>>
      [] kw = "finish" -> <<KwP("svg", "after 'finish'")>>
      [] kw = "circle" -> <<KwP("at", "after 'circle'")>>
                          \o PointP("after 'at'", "between x and y", "after (x, y)")
                          \o <<KwP("radius", "after circle position"), ExprP>>
      [] kw = "rect" -> <<KwP("at", "after 'rect'")>>
                        \o PointP("after 'at'", "between x and y", "after (x, y)")
                        \o <<KwP("width", "after rect position"), ExprP,
                             KwP("height", "after width value"), ExprP>>
      [] kw = "line" -> <<KwP("from", "after 'line'")>>
                        \o PointP("after 'from'", "between x1 and y1", "after (x1, y1)")
                        \o <<KwP("to", "after line start")>>
                        \o PointP("before destination", "between x2 and y2", "after (x2, y2)")
      [] kw = "text" -> <<ExprP, KwP("at", "after text content")>>
                        \o PointP("after 'at'", "between x and y", "after (x, y)")
      [] kw = "if" -> <<ExprP, TokP("Colon", "':' after if condition")>>

\* The node of such a statement, of the expressions and names its phrase kept
StatementNode(kw, v) ==
    CASE kw = "let" -> VarDecl(v[1], v[2])
      [] kw = "set" -> Assign(v[1], v[2])
      [] kw = "print" -> PrintStmt(v[1])
      [] kw = "start" -> StartSvg(v[1], v[2])
      [] kw = "finish" -> FinishSvg
      [] kw = "circle" -> DrawCircle(v[1], v[2], v[3])
      [] kw = "rect" -> DrawRect(v[1], v[2], v[3], v[4])
      [] kw = "line" -> DrawLine(v[1], v[2], v[3], v[4])

statement(toks, i) ==
    LET tok == peek(toks, i)
        kw == IF tok.t = "Ident" THEN toLowerCase(tok.v) ELSE ""
    IN  CASE kw \in {"let", "set", "print", "start", "finish", "circle", "rect", "line"} ->
                Bind(Phrase(toks, i + 1, StatementPhrase(kw), <<>>),
                     LAMBDA r : Ok(StatementNode(kw, r.v), r.i))
          [] kw = "use" ->
                IF isKW(peek(toks, i + 1), "fill")
                THEN Bind(expression(toks, i + 2), LAMBDA r : Ok(UseFill(r.v), r.i))
                ELSE IF isKW(peek(toks, i + 1), "stroke")
                THEN Bind(Phrase(toks, i + 2,
                                 <<ExprP, KwP("width", "after 'use stroke <color>'"), ExprP>>,
                                 <<>>),
                          LAMBDA r : Ok(UseStroke(r.v[1], r.v[2]), r.i))
                ELSE Err("Expected 'fill' or 'stroke' after 'use' at " \o Where(toks, i + 1),
                         i + 1)
          [] kw = "no" ->
                IF isKW(peek(toks, i + 1), "fill") THEN Ok(NoFill, i + 2)
                ELSE IF isKW(peek(toks, i + 1), "stroke") THEN Ok(NoStroke, i + 2)
                ELSE Err("Expected 'fill' or 'stroke' after 'no' at " \o Where(toks, i + 1),
                         i + 1)
          [] kw = "text" ->
                Bind(Phrase(toks, i + 1, StatementPhrase(kw), <<>>),
                     LAMBDA r :
                        IF isKW(peek(toks, r.i), "size")
                        THEN Bind(expression(toks, r.i + 1),
                                  LAMBDA z : Ok(DrawText(r.v[1], r.v[2], r.v[3], z.v), z.i))
                        ELSE Ok(DrawText(r.v[1], r.v[2], r.v[3], NoExpr), r.i))
          [] kw = "to" ->
                Bind(expect(toks, i + 1, "Ident", "function name after 'to'"),
                     LAMBDA n :
                        Bind(parseParamList(toks, n.i),
                             LAMBDA ps :
                                Bind(expect(toks, ps.i, "Colon", "':' after function header"),
                                     LAMBDA c :
                                        Bind(BlockEnd(toks, c.i, "to close function"),
                                             LAMBDA b : Ok(FnDef(n.v.v, ps.v, b.v), b.i)))))
          [] kw = "give" ->
                Bind(expectKW(toks, i + 1, "back", "after 'give'"),
                     LAMBDA k :
                        IF peek(toks, k.i).t \in {"Newline", "End"} THEN Ok(Return(NoExpr), k.i)
                        ELSE Bind(expression(toks, k.i), LAMBDA e : Ok(Return(e.v), e.i)))
          [] kw = "if" ->
                Bind(Phrase(toks, i + 1, StatementPhrase(kw), <<>>),
                     LAMBDA c :
                        Bind(block(toks, c.i),
                             LAMBDA b : IfRest(toks, b.i, <<Branch(c.v[1], b.v)>>)))
          [] kw = "repeat" ->
                OrElse(RepeatTimesForm(toks, i + 1), RepeatUntilForm(toks, i + 1))
          [] OTHER ->
                Err("Unexpected token '" \o TokenText(tok) \o "' at " \o Where(toks, i), i)

\* Parser.parseProgram
RECURSIVE ProgramLoop(_, _, _)
ProgramLoop(toks, i, stmts) ==
    IF peek(toks, i).t = "EOF" THEN Ok(stmts, i)
    ELSE IF peek(toks, i).t = "Newline" THEN ProgramLoop(toks, i + 1, stmts)
    ELSE Bind(statement(toks, i), LAMBDA s : ProgramLoop(toks, s.i, Append(stmts, s.v)))
parseProgram(toks) == ProgramLoop(toks, 1, <<>>)


(***************************************************************************)
(* Environments: type Env, childEnv, getEnv, setEnv, interpreter.ts:747-   *)
(* 764.  A frame is a Map (b, a function from the bound names to values)   *)
(* and its __parent (an index into the arena, 0 for the global frame).     *)
(***************************************************************************)
GlobalEnv == 1
Has(fr, e, name) == name \in DOMAIN fr[e].b
MapSet(fr, e, name, v) == [fr EXCEPT ![e].b = (name :> v) @@ fr[e].b]

\* childEnv(parent): the arena with a fresh empty frame whose __parent is parent.
childEnv(fr, parent) == Append(fr, [b |-> <<>>, parent |-> parent])

RECURSIVE getEnv(_, _, _)
getEnv(fr, e, name) ==
    IF Has(fr, e, name) THEN fr[e].b[name]
    ELSE IF fr[e].parent # 0 THEN getEnv(fr, fr[e].parent, name)
    ELSE Undef

\* (mutant) the assignment binds in the active frame, as a declaration does
setEnvLocal(fr, e, name, v) == MapSet(fr, e, name, v)

RECURSIVE setEnv(_, _, _, _)
setEnv(fr, e, name, v) ==
    IF Has(fr, e, name) THEN MapSet(fr, e, name, v)
    ELSE IF fr[e].parent # 0 THEN setEnv(fr, fr[e].parent, name, v)
    ELSE MapSet(fr, e, name, v)

(***************************************************************************)
(* The state of one evaluation, compileAndRenderSVG(source, options).      *)
(***************************************************************************)
VARIABLES
    input,      \* the program handed to the entry point (a member of Inputs)
    budget,     \* the execution budget handed to the entry point, if any
    frames,     \* the arena of environments; frames[GlobalEnv] is Interpreter.env at construction
    env,        \* Interpreter.env: the index of the active environment
    kont,       \* the pending work of exec and eval, innermost first
    vals,       \* the values of the subexpressions evaluated and not yet used, latest first
    printSink,  \* Interpreter.printSink
    svg,        \* Interpreter.svg: the SvgBuilder and its SvgState
    status,     \* "compiling", "running", "done" (the entry point returned) or
                \* "error" (an exception left the entry point)
    err,        \* the message of that exception
    result,     \* the string run returned
    steps       \* the number of calls of exec and eval made so far

\* The live preview that hosts the entry point (src/app/SvgLivePreview.tsx)
\* and the worker it starts (src/unnamed/part_000).
VARIABLES
    langText,       \* the React state langText: the source text in the editor
    svgText,        \* the React state svgText: the markup on display
    compileError,   \* the React state compileError: the message on display, or Null
    effects,        \* the runs of the compile effect, one per value of langText,
                    \* each with its closure (cancelled, tid, worker, id, finished, to)
    windowWorker,   \* window.Worker is present in the browser
    workerCompile,  \* self.compileAndRenderSVG is a function in the worker
    hung,           \* the host thread is inside a call of the entry point that does not return
    posted,         \* history: the messages the host has posted to workers
    compiled,       \* history: the effects whose text was handed to the entry point or to a worker
    setter          \* history: the effect that last called setSvgText or setCompileError
                    \* (0: none, or the user typing the markup)

coreVars == <<input, budget, frames, env, kont, vals, printSink, svg, status, err, result, steps>>
previewVars ==
    <<langText, svgText, compileError, effects, windowWorker, workerCompile,
      hung, posted, compiled, setter>>
vars == <<coreVars, previewVars>>

Running == status = "running"
Top == Head(kont)
Rest == Tail(kont)
At(o) == Running /\ kont # <<>> /\ Top.op = o
\* exec(stmt) is entered with a statement of kind k
AtExec(k) == At("exec") /\ Top.s.k = k /\ steps < MaxSteps
\* eval(expr) is entered with an expression of kind k
AtEval(k) == At("eval") /\ Top.e.k = k /\ steps < MaxSteps

Ex(s) == [op |-> "exec", s |-> s]
Ev(e) == [op |-> "eval", e |-> e]
\* for (const inner of body) this.exec(inner)
ExecAll(body) == [i \in 1..Len(body) |-> Ex(body[i])]

\* A call of exec or eval is made; a pending one resumes.
Tick == steps' = steps + 1 /\ UNCHANGED <<input, budget, previewVars>>
Resume == UNCHANGED <<steps, input, budget, previewVars>>

\* The machine goes on with continuation k2, values v2, arena fr2, environment e2.
Step(k2, v2, fr2, e2) ==
    /\ kont' = k2
    /\ vals' = v2
    /\ frames' = fr2
    /\ env' = e2
    /\ UNCHANGED <<printSink, svg, status, err, result>>
Goto(k2, v2) == Step(k2, v2, frames, env)

\* The calls whose body is running, innermost first (eval, Call: lines 1036-1046).
ActiveCalls == SelectSeq(kont, LAMBDA it : it.op = "callEnd")

\* Interpreter.env once every active call's `finally` has run.
UnwoundEnv ==
    IF ActiveCalls = <<>> THEN env ELSE ActiveCalls[Len(ActiveCalls)].prevEnv

\* (mutant) a failing run still hands out what it has drawn first
FailPartial(msg) ==
    /\ status' = "error"
    /\ err' = msg
    /\ kont' = <<>>
    /\ vals' = <<>>
    /\ env' = UnwoundEnv
    /\ result' = IF svg.body # <<>> THEN Head(svg.body) ELSE ""
    /\ UNCHANGED <<frames, printSink, svg>>

\* throw new RuntimeError(msg): nothing catches it, run and the entry point fail.
Fail(msg) ==
    /\ status' = "error"
    /\ err' = msg
    /\ kont' = <<>>
    /\ vals' = <<>>
    /\ env' = UnwoundEnv
    /\ UNCHANGED <<frames, printSink, svg, result>>

(***************************************************************************)
(* Interpreter.exec, interpreter.ts:839-970: one action per case, and one  *)
(* per point at which a case resumes after evaluating an operand.          *)
(***************************************************************************)
\* case "VarDecl": const v = this.eval(stmt.expr) ...
ExecVarDecl ==
    /\ AtExec("VarDecl")
    /\ Tick
    /\ Goto(<<Ev(Top.s.expr), [op |-> "declare", name |-> Top.s.name]>> \o Rest, vals)

\* (mutant) a declaration binds in the global frame
DoDeclareGlobal ==
    /\ At("declare")
    /\ Resume
    /\ Step(Rest, Tail(vals), MapSet(frames, GlobalEnv, Top.name, Head(vals)), env)

\* ... this.env.set(stmt.name, v)
DoDeclare ==
    /\ At("declare")
    /\ Resume
    /\ Step(Rest, Tail(vals), MapSet(frames, env, Top.name, Head(vals)), env)

\* case "Assign": const v = this.eval(stmt.expr) ...
ExecAssign ==
    /\ AtExec("Assign")
    /\ Tick
    /\ Goto(<<Ev(Top.s.expr), [op |-> "assign", name |-> Top.s.name]>> \o Rest, vals)

\* ... setEnv(this.env, stmt.name, v)
DoAssign ==
    /\ At("assign")
    /\ Resume
    /\ Step(Rest, Tail(vals), setEnv(frames, env, Top.name, Head(vals)), env)

\* case "Print": const v = this.eval(stmt.expr) ...
ExecPrint ==
    /\ AtExec("Print")
    /\ Tick
    /\ Goto(<<Ev(Top.s.expr), [op |-> "print"]>> \o Rest, vals)

\* ... this.printSink.push(String(v))
DoPrint ==
    /\ At("print")
    /\ Resume
    /\ kont' = Rest
    /\ vals' = Tail(vals)
    /\ printSink' = Append(printSink, String(Head(vals)))
    /\ UNCHANGED <<frames, env, svg, status, err, result>>

\* The name a counted loop binds: stmt.asVar, or "it".
LoopVar(s) == IF s.asVar # "" THEN s.asVar ELSE "it"

\* case "RepeatTimes": ... this.eval(stmt.count) ...
ExecRepeatTimes ==
    /\ AtExec("RepeatTimes")
    /\ Tick
    /\ Goto(<<Ev(Top.s.count), [op |-> "timesInit", s |-> Top.s]>> \o Rest, vals)

\* const n = Math.max(0, Math.floor(this.asNum(...)))
TimesInit ==
    /\ At("timesInit")
    /\ Resume
    /\ IF ~isNumber(Head(vals))
       THEN Fail("Expected number, got " \o TypeOf(Head(vals)))
       ELSE Goto(<<[op |-> "timesIter", s |-> Top.s, k |-> 1,
                    n |-> LoopCount(Head(vals))]>> \o Rest, Tail(vals))

\* (mutant) the loop variable is bound on the first run only
TimesIterBindOnce ==
    /\ At("timesIter")
    /\ Resume
    /\ IF Top.k <= Top.n
       THEN Step(ExecAll(Top.s.body) \o <<[Top EXCEPT !.k = @ + 1]>> \o Rest, vals,
                 IF Top.k = 1 THEN MapSet(frames, env, LoopVar(Top.s), NumV(Top.k))
                 ELSE frames, env)
       ELSE Goto(Rest, vals)

\* for (let k = 1; k <= n; k++) { this.env.set(asVar or "it", k); run the body }
TimesIter ==
    /\ At("timesIter")
    /\ Resume
    /\ IF Top.k <= Top.n
       THEN Step(ExecAll(Top.s.body) \o <<[Top EXCEPT !.k = @ + 1]>> \o Rest, vals,
                 MapSet(frames, env, LoopVar(Top.s), NumV(Top.k)), env)
       ELSE Goto(Rest, vals)

\* case "If": the condition of the first branch
ExecIf ==
    /\ AtExec("If")
    /\ Tick
    /\ Goto(<<Ev(Top.s.branches[1].cond), [op |-> "ifTest", s |-> Top.s, i |-> 1]>>
            \o Rest, vals)

\* if (this.truthy(cond)) { run the branch; return }; else the next branch, or elseBody
IfTest ==
    /\ At("ifTest")
    /\ Resume
    /\ IF truthy(Head(vals))
       THEN Goto(ExecAll(Top.s.branches[Top.i].body) \o Rest, Tail(vals))
       ELSE IF Top.i < Len(Top.s.branches)
       THEN Goto(<<Ev(Top.s.branches[Top.i + 1].cond), [Top EXCEPT !.i = @ + 1]>>
                 \o Rest, Tail(vals))
       ELSE Goto(ExecAll(Top.s.elseBody) \o Rest, Tail(vals))

\* (mutant) the function captures a copy of the active frame
ExecFnDefCopy ==
    /\ AtExec("FnDef")
    /\ Tick
    /\ Step(Rest, vals,
            MapSet(Append(frames, frames[env]), env, Top.s.name,
                   FnV(Top.s.params, Top.s.body, Len(frames) + 1, steps + 1)), env)

\* case "FnDef": this.env.set(stmt.name, { __fn: { params, body, closure: this.env } })
ExecFnDef ==
    /\ AtExec("FnDef")
    /\ Tick
    /\ Step(Rest, vals,
            MapSet(frames, env, Top.s.name,
                   FnV(Top.s.params, Top.s.body, env, steps + 1)), env)

\* case "Return": const val = stmt.expr ? this.eval(stmt.expr) : null ...
ExecReturn ==
    /\ AtExec("Return")
    /\ Tick
    /\ IF Top.s.expr.k = "None"
       THEN Goto(<<[op |-> "throw"]>> \o Rest, <<NullV>> \o vals)
       ELSE Goto(<<Ev(Top.s.expr), [op |-> "throw"]>> \o Rest, vals)

\* (mutant) the call that catches the signal yields null, not the value carried
ThrowReturnNull ==
    /\ At("throw")
    /\ Resume
    /\ IF ActiveCalls = <<>>
       THEN Fail("return")
       ELSE LET j == CHOOSE i \in 1..Len(kont) :
                        /\ kont[i].op = "callEnd"
                        /\ \A h \in 1..(i - 1) : kont[h].op # "callEnd"
                base == SubSeq(vals, Len(vals) - kont[j].depth + 1, Len(vals))
            IN  Step(SubSeq(kont, j + 1, Len(kont)), <<NullV>> \o base,
                     frames, kont[j].prevEnv)

\* (mutant) a signal thrown while no call is running ends run as its last
\* statement would
ThrowReturnEndsRun ==
    /\ At("throw")
    /\ Resume
    /\ IF ActiveCalls = <<>>
       THEN Goto(<<>>, <<>>)
       ELSE LET j == CHOOSE i \in 1..Len(kont) :
                        /\ kont[i].op = "callEnd"
                        /\ \A h \in 1..(i - 1) : kont[h].op # "callEnd"
                base == SubSeq(vals, Len(vals) - kont[j].depth + 1, Len(vals))
            IN  Step(SubSeq(kont, j + 1, Len(kont)), <<Head(vals)>> \o base,
                     frames, kont[j].prevEnv)

\* ... throw new ReturnSignal(val): caught by the innermost running call (lines
\* 1041-1046), which restores the environment and yields the value; with no call
\* running it leaves run as an error whose message is "return" (line 26).
ThrowReturn ==
    /\ At("throw")
    /\ Resume
    /\ IF ActiveCalls = <<>>
       THEN Fail("return")
       ELSE LET j == CHOOSE i \in 1..Len(kont) :
                        /\ kont[i].op = "callEnd"
                        /\ \A h \in 1..(i - 1) : kont[h].op # "callEnd"
                base == SubSeq(vals, Len(vals) - kont[j].depth + 1, Len(vals))
            IN  Step(SubSeq(kont, j + 1, Len(kont)), <<Head(vals)>> \o base,
                     frames, kont[j].prevEnv)

\* One round of `repeat <update> until <cond>`: the update, then the condition.
UntilRound(s) == <<Ex(s.update), Ev(s.cond), [op |-> "untilTest", s |-> s]>>

\* case "RepeatUntil": while (true) { this.exec(stmt.update); ...
ExecRepeatUntil ==
    /\ AtExec("RepeatUntil")
    /\ Tick
    /\ Goto(UntilRound(Top.s) \o Rest, vals)

\* (mutant) the body is run once more before the loop stops
UntilAfterTestBodyFirst(s, v) ==
    IF truthy(v) THEN ExecAll(s.body) ELSE ExecAll(s.body) \o UntilRound(s)

\* What follows the evaluation of the condition: `if (guard()) break;`, otherwise the
\* body and the next round.
UntilAfterTest(s, v) == IF truthy(v) THEN <<>> ELSE ExecAll(s.body) \o UntilRound(s)

\* ... if (guard()) break; for (const inner of stmt.body) this.exec(inner); }
UntilTest ==
    /\ At("untilTest")
    /\ Resume
    /\ Goto(UntilAfterTest(Top.s, Head(vals)) \o Rest, Tail(vals))

(***************************************************************************)
(* The canvas: SvgState and SvgBuilder, interpreter.ts:767-792, and the    *)
(* cases "StartSvg" and "FinishSvg" of exec.                               *)
(***************************************************************************)
\* new SvgBuilder(): fields width, height, started, body and state (fill, stroke,
\* strokeWidth)
NewSvgBuilder ==
    [width |-> NumV(300), height |-> NumV(150), started |-> FALSE, body |-> <<>>,
     fill |-> StrV("black"), stroke |-> NullV, strokeWidth |-> NumV(1)]

\* (mutant) start keeps the elements drawn so far
SvgStartKeepBody(b, w, h) == [b EXCEPT !.started = TRUE, !.width = w, !.height = h]

\* SvgBuilder.start(w, h)
SvgStart(b, w, h) == [b EXCEPT !.started = TRUE, !.width = w, !.height = h, !.body = <<>>]

\* Array.join(sep)
RECURSIVE Join(_, _)
Join(strs, sep) ==
    IF strs = <<>> THEN ""
    ELSE IF Len(strs) = 1 THEN strs[1]
    ELSE strs[1] \o sep \o Join(Tail(strs), sep)

\* SvgBuilder.finish() of a started builder: header, body lines, tail
SvgFinish(b) ==
    "<svg xmlns=\"http://www.w3.org/2000/svg\" width=\"" \o String(b.width)
        \o "\" height=\"" \o String(b.height)
        \o "\" viewBox=\"0 0 " \o String(b.width) \o " " \o String(b.height) \o "\">"
        \o "\n" \o Join(b.body, "\n") \o "\n" \o "</svg>"

\* case "StartSvg": const w = this.asNum(this.eval(stmt.width)) ...
ExecStartSvg ==
    /\ AtExec("StartSvg")
    /\ Tick
    /\ Goto(<<Ev(Top.s.width), [op |-> "startWidth", s |-> Top.s]>> \o Rest, vals)

\* ... const h = this.asNum(this.eval(stmt.height)) ...
StartSvgWidth ==
    /\ At("startWidth")
    /\ Resume
    /\ IF ~isNumber(Head(vals))
       THEN Fail("Expected number, got " \o TypeOf(Head(vals)))
       ELSE Goto(<<Ev(Top.s.height), [op |-> "startHeight"]>> \o Rest, vals)

\* ... this.svg.start(w, h)
StartSvgHeight ==
    /\ At("startHeight")
    /\ Resume
    /\ IF ~isNumber(Head(vals))
       THEN Fail("Expected number, got " \o TypeOf(Head(vals)))
       ELSE /\ kont' = Rest
            /\ vals' = Tail(Tail(vals))
            /\ svg' = SvgStart(svg, vals[2], vals[1])
            /\ UNCHANGED <<frames, env, printSink, status, err, result>>

\* (mutant) finish svg closes the canvas: no document without a new start
ExecFinishSvgCloses ==
    /\ AtExec("FinishSvg")
    /\ Tick
    /\ kont' = Rest
    /\ svg' = [svg EXCEPT !.started = FALSE]
    /\ UNCHANGED <<vals, frames, env, printSink, status, err, result>>

\* case "FinishSvg": a no-op
ExecFinishSvg ==
    /\ AtExec("FinishSvg")
    /\ Tick
    /\ Goto(Rest, vals)

(***************************************************************************)
(* Styles and shapes: SvgBuilder.attrs, circle, rect, line and text,       *)
(* interpreter.ts:793-825, and the cases of exec that use them.            *)
(***************************************************************************)
\* escapeXml(s): & < > " are replaced by their entities (the strings of the
\* modelled programs have none but for these)
escapeXml(s) ==
    CASE s = "a<b" -> "a&lt;b"
      [] s = "R&D" -> "R&amp;D"
      [] s = "x>y" -> "x&gt;y"
      [] s = "\"q\"" -> "&quot;q&quot;"
      [] OTHER -> s

\* `${k}="${escapeXml(String(v))}"`
Attr(k, s) == k \o "=\"" \o escapeXml(s) \o "\""
Extra(k, v) == [k |-> k, v |-> v]

\* SvgBuilder.attrs(extra): fill (none when null), stroke and stroke-width when
\* stroke is not null, then the entries of extra
attrs(b, extra) ==
    Join(<<Attr("fill", IF b.fill.t = "null" THEN "none" ELSE b.fill.s)>>
         \o (IF b.stroke.t # "null"
             THEN <<Attr("stroke", b.stroke.s), Attr("stroke-width", String(b.strokeWidth))>>
             ELSE <<>>)
         \o [i \in 1..Len(extra) |-> Attr(extra[i].k, String(extra[i].v))],
         " ")

\* body.push(s)
Push(b, s) == [b EXCEPT !.body = Append(@, s)]

circle(b, cx, cy, r) ==
    Push(b, "<circle " \o attrs(b, <<Extra("cx", cx), Extra("cy", cy), Extra("r", r)>>)
            \o " />")

rect(b, x, y, width, height) ==
    Push(b, "<rect "
            \o attrs(b, <<Extra("x", x), Extra("y", y), Extra("width", width),
                          Extra("height", height)>>)
            \o " />")

\* (mutant) a line gets no default stroke
lineNoDefault(b, x1, y1, x2, y2) ==
    Push(b, "<line "
            \o attrs(b, <<Extra("x1", x1), Extra("y1", y1), Extra("x2", x2), Extra("y2", y2)>>)
            \o " />")

\* line: `if no stroke set, default a stroke so lines are visible`
line(b, x1, y1, x2, y2) ==
    Push(b, "<line "
            \o attrs(b, <<Extra("x1", x1), Extra("y1", y1), Extra("x2", x2), Extra("y2", y2)>>)
            \o (IF b.stroke.t = "null" THEN " stroke=\"black\" stroke-width=\"1\"" ELSE "")
            \o " />")

\* text: size is a number, or Undef when the statement has no size
text(b, x, y, txt, size) ==
    Push(b, "<text x=\"" \o String(x) \o "\" y=\"" \o String(y) \o "\""
            \o (IF size.t = "num" /\ size.n # 0
                THEN " font-size=\"" \o String(size) \o "\"" ELSE "")
            \o " " \o attrs(b, <<>>) \o ">" \o escapeXml(txt.s) \o "</text>")

\* The machine goes on with continuation k2, values v2 and builder b2.
StepSvg(k2, v2, b2) ==
    /\ kont' = k2
    /\ vals' = v2
    /\ svg' = b2
    /\ UNCHANGED <<frames, env, printSink, status, err, result>>

\* case "UseFill": const v = this.eval(stmt.color) ...
ExecUseFill ==
    /\ AtExec("UseFill")
    /\ Tick
    /\ Goto(<<Ev(Top.s.color), [op |-> "useFill"]>> \o Rest, vals)

\* (mutant) use fill also recolours the elements already drawn (they are dropped
\* and would be drawn anew in the new colour)
DoUseFillRestyle ==
    /\ At("useFill")
    /\ Resume
    /\ IF ~isString(Head(vals))
       THEN Fail("fill color must be a string")
       ELSE StepSvg(Rest, Tail(vals), [svg EXCEPT !.fill = Head(vals), !.body = <<>>])

\* ... it must be a string; this.svg.state.fill = v
DoUseFill ==
    /\ At("useFill")
    /\ Resume
    /\ IF ~isString(Head(vals))
       THEN Fail("fill color must be a string")
       ELSE StepSvg(Rest, Tail(vals), [svg EXCEPT !.fill = Head(vals)])

\* case "UseStroke": const c = this.eval(stmt.color); const w = this.eval(stmt.width) ...
ExecUseStroke ==
    /\ AtExec("UseStroke")
    /\ Tick
    /\ Goto(<<Ev(Top.s.color), Ev(Top.s.width), [op |-> "useStroke"]>> \o Rest, vals)

\* ... c must be a string and w a number; state.stroke = c; state.strokeWidth = w
DoUseStroke ==
    /\ At("useStroke")
    /\ Resume
    /\ IF ~isString(vals[2])
       THEN Fail("stroke color must be a string")
       ELSE IF ~isNumber(vals[1])
       THEN Fail("stroke width must be a number")
       ELSE StepSvg(Rest, Tail(Tail(vals)),
                    [svg EXCEPT !.stroke = vals[2], !.strokeWidth = vals[1]])

\* case "NoFill": this.svg.state.fill = null
ExecNoFill ==
    /\ AtExec("NoFill")
    /\ Tick
    /\ StepSvg(Rest, vals, [svg EXCEPT !.fill = NullV])

\* case "NoStroke": this.svg.state.stroke = null
ExecNoStroke ==
    /\ AtExec("NoStroke")
    /\ Tick
    /\ StepSvg(Rest, vals, [svg EXCEPT !.stroke = NullV])

\* this.asNum(this.eval(e)) for each of the expressions es, in order
EvalNums(es) ==
    [i \in 1..(2 * Len(es)) |-> IF i % 2 = 1 THEN Ev(es[(i + 1) \div 2]) ELSE [op |-> "asNum"]]

\* asNum(v): v, a RuntimeError when it is not a number
AsNum ==
    /\ At("asNum")
    /\ Resume
    /\ IF ~isNumber(Head(vals))
       THEN Fail("Expected number, got " \o TypeOf(Head(vals)))
       ELSE Goto(Rest, vals)

\* case "DrawCircle": the arguments of this.svg.circle, in order
ExecDrawCircle ==
    /\ AtExec("DrawCircle")
    /\ Tick
    /\ Goto(EvalNums(<<Top.s.x, Top.s.y, Top.s.r>>) \o <<[op |-> "draw", kind |-> "circle"]>>
            \o Rest, vals)

\* case "DrawRect"
ExecDrawRect ==
    /\ AtExec("DrawRect")
    /\ Tick
    /\ Goto(EvalNums(<<Top.s.x, Top.s.y, Top.s.w, Top.s.h>>)
            \o <<[op |-> "draw", kind |-> "rect"]>> \o Rest, vals)

\* case "DrawLine"
ExecDrawLine ==
    /\ AtExec("DrawLine")
    /\ Tick
    /\ Goto(EvalNums(<<Top.s.x1, Top.s.y1, Top.s.x2, Top.s.y2>>)
            \o <<[op |-> "draw", kind |-> "line"]>> \o Rest, vals)

\* case "DrawText": const txt = this.eval(stmt.text) ...
ExecDrawText ==
    /\ AtExec("DrawText")
    /\ Tick
    /\ Goto(<<Ev(Top.s.text), [op |-> "textCheck", s |-> Top.s]>> \o Rest, vals)

\* ... it must be a string; then the arguments of this.svg.text, in order
TextCheck ==
    /\ At("textCheck")
    /\ Resume
    /\ IF ~isString(Head(vals))
       THEN Fail("text content must be a string")
       ELSE Goto(EvalNums(<<Top.s.x, Top.s.y>>
                          \o (IF Top.s.size.k # "None" THEN <<Top.s.size>> ELSE <<>>))
                 \o <<[op |-> "draw",
                       kind |-> IF Top.s.size.k # "None" THEN "textSize" ELSE "text"]>>
                 \o Rest, vals)

\* The call of this.svg.circle, rect, line or text with the values just evaluated
\* (the latest first in vals)
Draw ==
    /\ At("draw")
    /\ Resume
    /\ CASE Top.kind = "circle" ->
                StepSvg(Rest, SubSeq(vals, 4, Len(vals)), circle(svg, vals[3], vals[2], vals[1]))
         [] Top.kind = "rect" ->
                StepSvg(Rest, SubSeq(vals, 5, Len(vals)),
                        rect(svg, vals[4], vals[3], vals[2], vals[1]))
         [] Top.kind = "line" ->
                StepSvg(Rest, SubSeq(vals, 5, Len(vals)),
                        line(svg, vals[4], vals[3], vals[2], vals[1]))
         [] Top.kind = "textSize" ->
                StepSvg(Rest, SubSeq(vals, 5, Len(vals)),
                        text(svg, vals[3], vals[2], vals[4], vals[1]))
         [] OTHER ->
                StepSvg(Rest, SubSeq(vals, 4, Len(vals)),
                        text(svg, vals[2], vals[1], vals[3], Undef))

(***************************************************************************)
(* Interpreter.eval, interpreter.ts:983-1088.                              *)
(***************************************************************************)
\* case "Num", "Str", "Bool": return expr.v
EvalLiteral ==
    /\ At("eval") /\ Top.e.k \in {"Num", "Str", "Bool"} /\ steps < MaxSteps
    /\ Tick
    /\ Goto(Rest, <<(CASE Top.e.k = "Num" -> Top.e.v
                       [] Top.e.k = "Str" -> StrV(Top.e.v)
                       [] OTHER -> BoolV(Top.e.v))>> \o vals)

\* case "Var": getEnv(this.env, expr.name), a RuntimeError when undefined
EvalVar ==
    /\ AtEval("Var")
    /\ Tick
    /\ LET v == getEnv(frames, env, Top.e.name)
       IN  IF v.t = "undef"
           THEN Fail("Undefined variable '" \o Top.e.name \o "'")
           ELSE Goto(Rest, <<v>> \o vals)

\* case "Group": return this.eval(expr.inner)
EvalGroup ==
    /\ AtEval("Group")
    /\ Tick
    /\ Goto(<<Ev(Top.e.inner)>> \o Rest, vals)

\* case "Unary": const r = this.eval(expr.right) ...
EvalUnary ==
    /\ AtEval("Unary")
    /\ Tick
    /\ Goto(<<Ev(Top.e.right), [op |-> "unary", o |-> Top.e.op]>> \o Rest, vals)

\* ... neg: -r for a number, else a RuntimeError; not: !this.truthy(r)
ApplyUnary ==
    /\ At("unary")
    /\ Resume
    /\ LET r == Head(vals)
       IN  IF Top.o = "neg"
           THEN IF ~isNumber(r)
                THEN Fail("Unary '-' expects a number")
                ELSE Goto(Rest, <<NumQ(-r.n, r.d)>> \o Tail(vals))
           ELSE IF Top.o = "not"
           THEN Goto(Rest, <<BoolV(~truthy(r))>> \o Tail(vals))
           ELSE Fail("Unknown unary op " \o Top.o)

\* (mutant) the right operand of `and` / `or` is not evaluated
EvalBinaryLeftOnly ==
    /\ AtEval("Binary")
    /\ Tick
    /\ Goto(<<Ev(Top.e.left),
              IF Top.e.op \in {"and", "or"} THEN Ev(Bool(FALSE)) ELSE Ev(Top.e.right),
              [op |-> "binary", o |-> Top.e.op]>>
            \o Rest, vals)

\* case "Binary": const a = this.eval(expr.left); const b = this.eval(expr.right) ...
EvalBinary ==
    /\ AtEval("Binary")
    /\ Tick
    /\ Goto(<<Ev(Top.e.left), Ev(Top.e.right), [op |-> "binary", o |-> Top.e.op]>>
            \o Rest, vals)

ErrV(msg) == [t |-> "err", msg |-> msg]

\* switch (expr.op): the value of a binary operation, or the error it throws
BinaryOp(o, a, b) ==
    LET nums == isNumber(a) /\ isNumber(b)
        invalid == ErrV("Invalid operands for '" \o o \o "'")
    IN  CASE o = "+" -> IF nums THEN NumAdd(a, b) ELSE StrV(String(a) \o String(b))
          [] o = "-" -> IF nums THEN NumSub(a, b) ELSE invalid
          [] o = "*" -> IF nums THEN NumMul(a, b) ELSE invalid
          [] o = "/" -> IF nums THEN NumDiv(a, b) ELSE invalid
          [] o = "%" -> IF nums THEN NumRem(a, b) ELSE invalid
          [] o = "==" -> BoolV(eq(a, b))
          [] o = "!=" -> BoolV(~eq(a, b))
          [] o \in {"<", "<=", ">", ">="} ->
                IF nums
                THEN BoolV(CASE o = "<" -> NumLt(a, b)
                             [] o = "<=" -> NumLe(a, b)
                             [] o = ">" -> NumLt(b, a)
                             [] OTHER -> NumLe(b, a))
                ELSE ErrV("Comparison expects numbers")
          [] o = "and" -> BoolV(truthy(a) /\ truthy(b))
          [] o = "or" -> BoolV(truthy(a) \/ truthy(b))
          [] OTHER -> invalid

\* ... both operands are evaluated, then the operator is applied
ApplyBinary ==
    /\ At("binary")
    /\ Resume
    /\ LET r == BinaryOp(Top.o, vals[2], vals[1])
       IN  IF r.t = "err"
           THEN Fail(r.msg)
           ELSE Goto(Rest, <<r>> \o Tail(Tail(vals)))

(***************************************************************************)
(* eval, case "Call", interpreter.ts:994-1047.  The call record c holds    *)
(* the callee's name, its params and body, the argument list and the       *)
(* index of the call frame (callEnv).                                      *)
(***************************************************************************)
\* (mutant) dynamic scoping: the call frame hangs below the caller's frame
CallParentDynamic(closure, caller) == caller

\* The enclosing frame of a call frame: childEnv(closure), line 1002.
CallParent(closure, caller) == closure

\* const calleeVal = getEnv(this.env, expr.callee); it must be a function;
\* const callEnv = childEnv(closure)
EvalCall ==
    /\ AtEval("Call")
    /\ Tick
    /\ LET f == getEnv(frames, env, Top.e.callee)
       IN  IF f.t = "undef"
           THEN Fail("Undefined function '" \o Top.e.callee \o "'")
           ELSE IF ~isFn(f)
           THEN Fail("'" \o Top.e.callee \o "' is not a function")
           ELSE LET c == [callee |-> Top.e.callee, params |-> f.params,
                          body |-> f.body, args |-> Top.e.args,
                          callEnv |-> Len(frames) + 1]
                IN  Step(<<[op |-> "bindPos", c |-> c, i |-> 1, pos |-> 0]>> \o Rest,
                         vals, childEnv(frames, CallParent(f.closure, env)), env)

SetParam(c, name) == [op |-> "setParam", callEnv |-> c.callEnv, name |-> name]

\* (mutant) an unnamed argument binds the parameter at its index in the whole
\* argument list, named arguments counted
BindPositionalByIndex ==
    /\ At("bindPos")
    /\ Resume
    /\ LET c == Top.c
       IN  IF Top.i > Len(c.args)
           THEN Goto(<<[op |-> "bindDef", c |-> c, i |-> Top.pos + 1]>> \o Rest, vals)
           ELSE IF c.args[Top.i].name # ""
           THEN Goto(<<[Top EXCEPT !.i = @ + 1, !.pos = @ + 1]>> \o Rest, vals)
           ELSE IF Top.pos >= Len(c.params)
           THEN Fail("Too many arguments to " \o c.callee)
           ELSE Goto(<<Ev(c.args[Top.i].expr), SetParam(c, c.params[Top.pos + 1].name),
                       [Top EXCEPT !.i = @ + 1, !.pos = @ + 1]>> \o Rest, vals)

\* Bind positional args (lines 1004-1012): the argument list is walked once; an
\* unnamed argument is evaluated and bound to params[pos++], or is one too many.
BindPositional ==
    /\ At("bindPos")
    /\ Resume
    /\ LET c == Top.c
       IN  IF Top.i > Len(c.args)
           THEN Goto(<<[op |-> "bindDef", c |-> c, i |-> Top.pos + 1]>> \o Rest, vals)
           ELSE IF c.args[Top.i].name # ""
           THEN Goto(<<[Top EXCEPT !.i = @ + 1]>> \o Rest, vals)
           ELSE IF Top.pos >= Len(c.params)
           THEN Fail("Too many arguments to " \o c.callee)
           ELSE Goto(<<Ev(c.args[Top.i].expr), SetParam(c, c.params[Top.pos + 1].name),
                       [Top EXCEPT !.i = @ + 1, !.pos = @ + 1]>> \o Rest, vals)

\* callEnv.set(p.name, <the value just evaluated>)
BindParam ==
    /\ At("setParam")
    /\ Resume
    /\ Step(Rest, Tail(vals), MapSet(frames, Top.callEnv, Top.name, Head(vals)), env)

\* Apply defaults for remaining params (lines 1014-1018): for (i = pos; ...) each
\* parameter with a default gets this.eval(p.default); this.env is still the
\* caller's environment here.
BindDefaults ==
    /\ At("bindDef")
    /\ Resume
    /\ LET c == Top.c
       IN  IF Top.i > Len(c.params)
           THEN Goto(<<[op |-> "bindNamed", c |-> c, i |-> 1]>> \o Rest, vals)
           ELSE IF c.params[Top.i].default.k = "None"
           THEN Goto(<<[Top EXCEPT !.i = @ + 1]>> \o Rest, vals)
           ELSE Goto(<<Ev(c.params[Top.i].default), SetParam(c, c.params[Top.i].name),
                       [Top EXCEPT !.i = @ + 1]>> \o Rest, vals)

\* Bind named args (lines 1020-1027): params.find(pp => pp.name === arg.name), a
\* RuntimeError when there is none, else the argument is evaluated and bound.
BindNamed ==
    /\ At("bindNamed")
    /\ Resume
    /\ LET c == Top.c
       IN  IF Top.i > Len(c.args)
           THEN Goto(<<[op |-> "callEnter", c |-> c]>> \o Rest, vals)
           ELSE IF c.args[Top.i].name = ""
           THEN Goto(<<[Top EXCEPT !.i = @ + 1]>> \o Rest, vals)
           ELSE IF \A j \in 1..Len(c.params) : c.params[j].name # c.args[Top.i].name
           THEN Fail("Unknown parameter '" \o c.args[Top.i].name \o "' for " \o c.callee)
           ELSE Goto(<<Ev(c.args[Top.i].expr), SetParam(c, c.args[Top.i].name),
                       [Top EXCEPT !.i = @ + 1]>> \o Rest, vals)

\* (mutant) the body is run without the check that every parameter is bound
CallEnterUnchecked ==
    /\ At("callEnter")
    /\ Resume
    /\ Step(ExecAll(Top.c.body)
               \o <<[op |-> "callEnd", prevEnv |-> env, depth |-> Len(vals)]>> \o Rest,
            vals, frames, Top.c.callEnv)

\* Check all params bound (lines 1029-1033), then run the body with this.env =
\* callEnv (lines 1035-1039).
CallEnter ==
    /\ At("callEnter")
    /\ Resume
    /\ LET c == Top.c
           unbound == {j \in 1..Len(c.params) : ~Has(frames, c.callEnv, c.params[j].name)}
       IN  IF unbound # {}
           THEN LET j == CHOOSE i \in unbound : \A h \in unbound : i <= h
                IN  Fail("Missing argument '" \o c.params[j].name \o "' for " \o c.callee)
           ELSE Step(ExecAll(c.body)
                       \o <<[op |-> "callEnd", prevEnv |-> env, depth |-> Len(vals)]>>
                       \o Rest,
                     vals, frames, c.callEnv)

\* (mutant) the environment of the call stays active after it
CallEndKeepEnv ==
    /\ At("callEnd")
    /\ Resume
    /\ Step(Rest, <<NullV>> \o vals, frames, env)

\* The body ran to its end: return null; finally { this.env = prevEnv }
CallEnd ==
    /\ At("callEnd")
    /\ Resume
    /\ Step(Rest, <<NullV>> \o vals, frames, Top.prevEnv)

(***************************************************************************)
(* Interpreter.run, interpreter.ts:832-837, after its last statement:      *)
(* if (this.svg.started) return this.svg.finish(); return "".              *)
(***************************************************************************)
Finish ==
    /\ Running
    /\ kont = <<>>
    /\ status' = "done"
    /\ result' = IF svg.started THEN SvgFinish(svg) ELSE ""
    /\ UNCHANGED <<input, budget, frames, env, kont, vals, printSink, svg, err, steps>>
    /\ UNCHANGED previewVars

(***************************************************************************)
(* The programs the model runs.  An input is a record [fam, a, b, c, d]:   *)
(* a family of programs and the parameters of one member.  Each program    *)
(* is given as the tree Parser.parseProgram builds for the source text     *)
(* shown with it; calls stand where the grammar has an expression (the      *)
(* parser has no statement that is a bare call).                           *)
(***************************************************************************)
In(fam, a, b, c, d) == [fam |-> fam, a |-> a, b |-> b, c |-> c, d |-> d]

\*  let x be <a>
\*  repeat x be x + <b> until x >= 100:
\*    print x
\*  end
UntilProgram(a, b) ==
    << VarDecl("x", Num(a)),
       RepeatUntil(Assign("x", Binary("+", Var("x"), Num(b))),
                   Binary(">=", Var("x"), Num(100)),
                   <<PrintStmt(Var("x"))>>) >>
UntilInputs == {In("until", a, b, 0, 0) : a \in {0, 100}, b \in {0, 10, 30, 50}}

\*  [let <v> be 7]                     (c = 1; v is i when b = 1, else it)
\*  let n be <count a>
\*  repeat n times [as i]:             (as i when b = 1)
\*    print <v>
\*    [set <v> to 99 | set n to 0]     (d = 1 | d = 2)
\*  end
CountExprs == << Unary("neg", Num(1)), Num(0), Num(1), Num(2), Half(5), Num(3) >>
TimesVar(b) == IF b = 1 THEN "i" ELSE "it"
TimesProgram(a, b, c, d) ==
    (IF c = 1 THEN <<VarDecl(TimesVar(b), Num(7))>> ELSE <<>>)
    \o << VarDecl("n", CountExprs[a]),
          RepeatTimes(Var("n"), IF b = 1 THEN "i" ELSE "",
                      <<PrintStmt(Var(TimesVar(b)))>>
                      \o (CASE d = 1 -> <<Assign(TimesVar(b), Num(99))>>
                            [] d = 2 -> <<Assign("n", Num(0))>>
                            [] OTHER -> <<>>)) >>
TimesInputs ==
    {In("times", a, b, c, d) : a \in 1..Len(CountExprs), b \in 0..1, c \in 0..1, d \in 0..2}

\*  let x be 1
\*  <a block whose body is `let x be 2`>
\*  print x
\* the block: a = 1  if true: ... end
\*            a = 2  if false: otherwise: ... end
\*            a = 3  repeat 1 times: ... end
\*            a = 4  repeat c be c + 1 until c >= 2: ... end   (after `let c be 0`)
InnerLet == <<VarDecl("x", Num(2))>>
BlockProgram(a) ==
    <<VarDecl("x", Num(1))>>
    \o (CASE a = 1 -> <<If(<<Branch(Bool(TRUE), InnerLet)>>, <<>>)>>
          [] a = 2 -> <<If(<<Branch(Bool(FALSE), <<>>)>>, InnerLet)>>
          [] a = 3 -> <<RepeatTimes(Num(1), "", InnerLet)>>
          [] OTHER -> << VarDecl("c", Num(0)),
                         RepeatUntil(Assign("c", Binary("+", Var("c"), Num(1))),
                                     Binary(">=", Var("c"), Num(2)), InnerLet) >>)
    \o <<PrintStmt(Var("x"))>>
BlockInputs == {In("block", a, 0, 0, 0) : a \in 1..4}

\* a = 1   let x be 1 / set x to <b> / print x
\* a = 2   let x be 1 / to f(x): set x to <b> / give back x end / print f(2) / print x
\* a = 3   let x be 1 / to g(): set x to <b> / give back 0 end / print g() / print x
\* a = 4   to h(): set z to <b> end / print h() / print z
\* a = 5   to outer(): let y be 1 / to inner(): set y to <b> / give back 0 end /
\*           let r be inner() / give back y end / print outer()
SetProgram(a, b) ==
    CASE a = 1 -> << VarDecl("x", Num(1)), Assign("x", Num(b)), PrintStmt(Var("x")) >>
      [] a = 2 -> << VarDecl("x", Num(1)),
                     FnDef("f", <<Param("x")>>,
                           <<Assign("x", Num(b)), Return(Var("x"))>>),
                     PrintStmt(Call("f", <<Arg(Num(2))>>)), PrintStmt(Var("x")) >>
      [] a = 3 -> << VarDecl("x", Num(1)),
                     FnDef("g", <<>>, <<Assign("x", Num(b)), Return(Num(0))>>),
                     PrintStmt(Call("g", <<>>)), PrintStmt(Var("x")) >>
      [] a = 4 -> << FnDef("h", <<>>, <<Assign("z", Num(b))>>),
                     PrintStmt(Call("h", <<>>)), PrintStmt(Var("z")) >>
      [] OTHER -> << FnDef("outer", <<>>,
                           << VarDecl("y", Num(1)),
                              FnDef("inner", <<>>,
                                    <<Assign("y", Num(b)), Return(Num(0))>>),
                              VarDecl("r", Call("inner", <<>>)),
                              Return(Var("y")) >>),
                     PrintStmt(Call("outer", <<>>)) >>
SetInputs == {In("set", a, b, 0, 0) : a \in 1..5, b \in {5, 8}}

\* a = 1   let y be 1 / to g(): give back y end / to f(y): give back g() end /
\*         print f(2)
\* a = 2   the same without `let y be 1`
\* a = 3   to mk(y): to inner(): give back y end / give back inner end /
\*         let h be mk(3) / to caller(y): give back h() end / print caller(4)
LexProgram(a) ==
    CASE a \in {1, 2} ->
            (IF a = 1 THEN <<VarDecl("y", Num(1))>> ELSE <<>>)
            \o << FnDef("g", <<>>, <<Return(Var("y"))>>),
                  FnDef("f", <<Param("y")>>, <<Return(Call("g", <<>>))>>),
                  PrintStmt(Call("f", <<Arg(Num(2))>>)) >>
      [] OTHER ->
            << FnDef("mk", <<Param("y")>>,
                     << FnDef("inner", <<>>, <<Return(Var("y"))>>),
                        Return(Var("inner")) >>),
               VarDecl("h", Call("mk", <<Arg(Num(3))>>)),
               FnDef("caller", <<Param("y")>>, <<Return(Call("h", <<>>))>>),
               PrintStmt(Call("caller", <<Arg(Num(4))>>)) >>
LexInputs == {In("lex", a, 0, 0, 0) : a \in 1..3}

\* a = 1   let c be 1 / to get(): give back c end /
\*         to bump(): set c to (c + 10) / give back 0 end /
\*         print get() / set c to <b> / print get() / print bump() / print c
\* a = 2   to mk(c): to inc(): set c to c + 1 / give back c end / give back inc end /
\*         let k be mk(<b>) / print k() / print k()
ShareProgram(a, b) ==
    CASE a = 1 ->
            << VarDecl("c", Num(1)),
               FnDef("get", <<>>, <<Return(Var("c"))>>),
               FnDef("bump", <<>>,
                     << Assign("c", Group(Binary("+", Var("c"), Num(10)))),
                        Return(Num(0)) >>),
               PrintStmt(Call("get", <<>>)),
               Assign("c", Num(b)),
               PrintStmt(Call("get", <<>>)),
               PrintStmt(Call("bump", <<>>)),
               PrintStmt(Var("c")) >>
      [] OTHER ->
            << FnDef("mk", <<Param("c")>>,
                     << FnDef("inc", <<>>,
                              << Assign("c", Binary("+", Var("c"), Num(1))),
                                 Return(Var("c")) >>),
                        Return(Var("inc")) >>),
               VarDecl("k", Call("mk", <<Arg(Num(b))>>)),
               PrintStmt(Call("k", <<>>)),
               PrintStmt(Call("k", <<>>)) >>
ShareInputs == {In("share", a, b, 0, 0) : a \in 1..2, b \in {2, 5}}

\*  to f(a, b, c = 30):
\*    give back a + "," + b + "," + c
\*  end
\*  print f(<argument list a>)
ArgLists ==
    << <<Arg(Num(1)), Arg(Num(2))>>,                          \* f(1, 2)
       <<Arg(Num(1)), Arg(Num(2)), Arg(Num(3))>>,             \* f(1, 2, 3)
       <<NamedArg("c", Num(3)), Arg(Num(1)), Arg(Num(2))>>,   \* f(c = 3, 1, 2)
       <<Arg(Num(1)), NamedArg("c", Num(3)), Arg(Num(2))>>,   \* f(1, c = 3, 2)
       <<Arg(Num(1)), Arg(Num(2)), NamedArg("a", Num(9))>>,   \* f(1, 2, a = 9)
       <<Arg(Num(1)), Arg(Num(2)), Arg(Num(3)), NamedArg("c", Num(7))>>,
                                                              \* f(1, 2, 3, c = 7)
       <<Arg(Num(1)), NamedArg("b", Num(5))>>,                \* f(1, b = 5)
       <<NamedArg("b", Num(5)), NamedArg("a", Num(1))>>,      \* f(b = 5, a = 1)
       <<NamedArg("b", Num(5)), Arg(Num(1)), NamedArg("b", Num(6))>>,
                                                              \* f(b = 5, 1, b = 6)
       <<Arg(Num(1))>>,                                       \* f(1)
       <<Arg(Num(1)), Arg(Num(2)), Arg(Num(3)), Arg(Num(4))>>,  \* f(1, 2, 3, 4)
       <<Arg(Num(1)), Arg(Num(2)), NamedArg("z", Num(3))>>,     \* f(1, 2, z = 3)
       <<NamedArg("c", Num(3))>>,                               \* f(c = 3)
       <<NamedArg("z", Num(1)), Arg(Num(1)), Arg(Num(2)), Arg(Num(3)), Arg(Num(4))>> >>
                                                                \* f(z = 1, 1, 2, 3, 4)
ArgsParams == <<Param("a"), Param("b"), ParamDef("c", Num(30))>>
ArgsProgram(a) ==
    << FnDef("f", ArgsParams,
             <<Return(Binary("+",
                 Binary("+",
                   Binary("+", Binary("+", Var("a"), Str(",")), Var("b")),
                   Str(",")),
                 Var("c")))>>),
       PrintStmt(Call("f", ArgLists[a])) >>
ArgsInputs == {In("args", a, 0, 0, 0) : a \in 1..Len(ArgLists)}

\*  to f(a, b = a + 1): give back b end
\* a = 1   print f(5)
\* a = 2   let a be 10 / print f(5)
\* a = 3   to g(a): give back f(5) end / print g(20)
DefaultsProgram(a) ==
    (IF a = 2 THEN <<VarDecl("a", Num(10))>> ELSE <<>>)
    \o << FnDef("f", <<Param("a"), ParamDef("b", Binary("+", Var("a"), Num(1)))>>,
                <<Return(Var("b"))>>) >>
    \o (IF a = 3
        THEN << FnDef("g", <<Param("a")>>, <<Return(Call("f", <<Arg(Num(5))>>))>>),
                PrintStmt(Call("g", <<Arg(Num(20))>>)) >>
        ELSE << PrintStmt(Call("f", <<Arg(Num(5))>>)) >>)
DefaultsInputs == {In("defaults", a, 0, 0, 0) : a \in 1..3}

\* a = 1   start svg width 200 height 100
\* a = 2   start svg width 200 height 100 / finish svg
\* a = 3   finish svg
\* a = 4   start svg width "wide" height 100
\* a = 5   start svg width 200 height true
CanvasProgram(a) ==
    CASE a = 1 -> <<StartSvg(Num(200), Num(100))>>
      [] a = 2 -> <<StartSvg(Num(200), Num(100)), FinishSvg>>
      [] a = 3 -> <<FinishSvg>>
      [] a = 4 -> <<StartSvg(Str("wide"), Num(100))>>
      [] OTHER -> <<StartSvg(Num(200), Bool(TRUE))>>
CanvasInputs == {In("canvas", a, 0, 0, 0) : a \in 1..5}

\* a = 1   to f(a, b = boom): give back a + b end / print f(1, b = 2)
\* a = 2   let n be 0 / to tick(): set n to n + 1 / give back n end /
\*         to f(a, b = tick()): give back b end / print f(1, b = 5) / print n
\* a = 3   to f(a, b = boom): give back a + b end / print f(1, 2)
NamedProgram(a) ==
    CASE a \in {1, 3} ->
            << FnDef("f", <<Param("a"), ParamDef("b", Var("boom"))>>,
                     <<Return(Binary("+", Var("a"), Var("b")))>>),
               PrintStmt(Call("f", IF a = 1 THEN <<Arg(Num(1)), NamedArg("b", Num(2))>>
                                   ELSE <<Arg(Num(1)), Arg(Num(2))>>)) >>
      [] OTHER ->
            << VarDecl("n", Num(0)),
               FnDef("tick", <<>>,
                     <<Assign("n", Binary("+", Var("n"), Num(1))), Return(Var("n"))>>),
               FnDef("f", <<Param("a"), ParamDef("b", Call("tick", <<>>))>>,
                     <<Return(Var("b"))>>),
               PrintStmt(Call("f", <<Arg(Num(1)), NamedArg("b", Num(5))>>)),
               PrintStmt(Var("n")) >>
NamedInputs == {In("named", a, 0, 0, 0) : a \in 1..3}

\* a = 1   to f(n): repeat 3 times as i: if i == n: give back i * 10 end /
\*           print i end / print "after" / give back 0 - 1 end / print f(<b>)
\* a = 2   to g(): if true: give back end / print "no" end / print g()
\* a = 3   to h(): let q be 1 end / print h()
\* a = 4   to u(): let x be 0 / repeat x be x + 1 until x >= 10:
\*           if x == <b>: give back x end / print "r" end / give back 99 end /
\*         print u()
\* a = 5   to inner(): give back 1 / print "x" end /
\*         to outer(): let r be inner() / print "o" / give back r + <b> end /
\*         print outer()
ReturnProgram(a, b) ==
    CASE a = 1 ->
            << FnDef("f", <<Param("n")>>,
                     << RepeatTimes(Num(3), "i",
                            << If(<<Branch(Binary("==", Var("i"), Var("n")),
                                           <<Return(Binary("*", Var("i"), Num(10)))>>)>>,
                                  <<>>),
                               PrintStmt(Var("i")) >>),
                        PrintStmt(Str("after")),
                        Return(Binary("-", Num(0), Num(1))) >>),
               PrintStmt(Call("f", <<Arg(Num(b))>>)) >>
      [] a = 2 ->
            << FnDef("g", <<>>,
                     << If(<<Branch(Bool(TRUE), <<Return(NoExpr)>>)>>, <<>>),
                        PrintStmt(Str("no")) >>),
               PrintStmt(Call("g", <<>>)) >>
      [] a = 3 ->
            << FnDef("h", <<>>, <<VarDecl("q", Num(1))>>),
               PrintStmt(Call("h", <<>>)) >>
      [] a = 4 ->
            << FnDef("u", <<>>,
                     << VarDecl("x", Num(0)),
                        RepeatUntil(Assign("x", Binary("+", Var("x"), Num(1))),
                                    Binary(">=", Var("x"), Num(10)),
                                    << If(<<Branch(Binary("==", Var("x"), Num(b)),
                                                   <<Return(Var("x"))>>)>>, <<>>),
                                       PrintStmt(Str("r")) >>),
                        Return(Num(99)) >>),
               PrintStmt(Call("u", <<>>)) >>
      [] OTHER ->
            << FnDef("inner", <<>>, <<Return(Num(1)), PrintStmt(Str("x"))>>),
               FnDef("outer", <<>>,
                     << VarDecl("r", Call("inner", <<>>)),
                        PrintStmt(Str("o")),
                        Return(Binary("+", Var("r"), Num(b))) >>),
               PrintStmt(Call("outer", <<>>)) >>
ReturnInputs ==
    {In("return", a, b, 0, 0) : a \in {1, 4, 5}, b \in {1, 2, 3, 5}}
        \cup {In("return", a, 0, 0, 0) : a \in {2, 3}}

\*  [let n be 50 / let m be 60]                          (c = 1)
\*  to fact(n):
\*    let m be n
\*    if n <= 1: give back 1 end
\*    let r be fact(n - 1)
\*    give back n * r + (m - n)
\*  end
\*  print fact(<b>)
\*  [print n / print m]                                   (c = 1)
RecursionProgram(b, c) ==
    (IF c = 1 THEN <<VarDecl("n", Num(50)), VarDecl("m", Num(60))>> ELSE <<>>)
    \o << FnDef("fact", <<Param("n")>>,
                << VarDecl("m", Var("n")),
                   If(<<Branch(Binary("<=", Var("n"), Num(1)), <<Return(Num(1))>>)>>, <<>>),
                   VarDecl("r", Call("fact", <<Arg(Binary("-", Var("n"), Num(1)))>>)),
                   Return(Binary("+", Binary("*", Var("n"), Var("r")),
                                 Group(Binary("-", Var("m"), Var("n"))))) >>),
          PrintStmt(Call("fact", <<Arg(Num(b))>>)) >>
    \o (IF c = 1 THEN <<PrintStmt(Var("n")), PrintStmt(Var("m"))>> ELSE <<>>)
RecursionInputs == {In("recursion", 0, b, c, 0) : b \in 1..3, c \in 0..1}

\* Lexemes of frequent use
LP == Punct("(")
RP == Punct(")")
Colon == Punct(":")
Digit(n) == Numeral(<<ToString(n)>>)

\* Shapes of frequent use
Circle123 == DrawCircle(Num(1), Num(2), Num(3))
Rect1234 == DrawRect(Num(1), Num(2), Num(3), Num(4))
Line0055 == DrawLine(Num(0), Num(0), Num(5), Num(5))
TextHi == DrawText(Str("hi"), Num(1), Num(2), NoExpr)

\* The programs of the family "early": <statement a> / print "after", where the
\* statement is
\* a = 1   circle at (1, 2) radius 3
\* a = 2   rect at (1, 2) width 3 height 4
\* a = 3   line from (0, 0) to (5, 5)
\* a = 4   text "hi" at (1, 2)
\* a = 5   use fill "red"
\* a = 6   use stroke "blue" width 2
\* a = 7   no fill
\* a = 8   no stroke
\* a = 9   finish svg
EarlyStatements ==
    << Circle123, Rect1234, Line0055, TextHi, UseFill(Str("red")),
       UseStroke(Str("blue"), Num(2)), NoFill, NoStroke, FinishSvg >>
EarlyProgram(a) == <<EarlyStatements[a], PrintStmt(Str("after"))>>
EarlyInputs == {In("early", a, 0, 0, 0) : a \in 1..Len(EarlyStatements)}

\* The source text of the family "example":
\*   start svg width 200 height 200
\*   circle at ( 100 , 100 ) radius 50
\*   finish svg
ExampleSource ==
    Words(<<"start", "svg", "width">>)
    \o <<Numeral(<<"2", "0", "0">>), Word("height"), Numeral(<<"2", "0", "0">>), Newline>>
    \o Words(<<"circle", "at">>)
    \o <<LP, Numeral(<<"1", "0", "0">>), Punct(","), Numeral(<<"1", "0", "0">>), RP,
         Word("radius"), Numeral(<<"5", "0">>), Newline>>
    \o Words(<<"finish", "svg">>)
ExampleInputs == {In("example", 0, 0, 0, 0)}

\* The programs of the family "doc":
\* a = 1   start svg width 100 height 50 / circle at (1, 2) radius 3 /
\*         rect at (1, 2) width 3 height 4 / start svg width 300 height 200 /
\*         line from (0, 0) to (5, 5) / text "a<b" at (1, 2) size 14
\* a = 2   circle at (1, 2) radius 3 / start svg width 10 height 10 /
\*         rect at (1, 2) width 3 height 4 / finish svg
\* a = 3   start svg width 50 height 50 /
\*         repeat 3 times as i: circle at (i * 10, 0) radius i end / finish svg
\* a = 4   start svg width 20 height 20 / circle at (1, 2) radius 3 / finish svg /
\*         start svg width 10 height 10
DocProgram(a) ==
    CASE a = 1 -> << StartSvg(Num(100), Num(50)), Circle123, Rect1234,
                     StartSvg(Num(300), Num(200)), Line0055,
                     DrawText(Str("a<b"), Num(1), Num(2), Num(14)) >>
      [] a = 2 -> << Circle123, StartSvg(Num(10), Num(10)), Rect1234, FinishSvg >>
      [] a = 3 -> << StartSvg(Num(50), Num(50)),
                     RepeatTimes(Num(3), "i",
                         <<DrawCircle(Binary("*", Var("i"), Num(10)), Num(0), Var("i"))>>),
                     FinishSvg >>
      [] OTHER -> << StartSvg(Num(20), Num(20)), Circle123, FinishSvg,
                     StartSvg(Num(10), Num(10)) >>
DocInputs == {In("doc", a, 0, 0, 0) : a \in 1..4}

\* The programs of the family "style", each after `start svg width 100 height 100`:
\* a = 1   circle at (1, 2) radius 3 / use fill "red" / circle at (1, 2) radius 3 /
\*         no fill / use stroke "blue" width 2 / rect at (1, 2) width 3 height 4 /
\*         no stroke / text "hi" at (1, 2) / use fill "green"
\* a = 2   use stroke "navy" width 3 / line from (0, 0) to (5, 5) / no stroke /
\*         use fill "gold" / circle at (1, 2) radius 3
\* a = 3   line from (0, 0) to (5, 5) / use stroke "red" width 2 /
\*         line from (0, 0) to (5, 5)
StyleProgram(a) ==
    <<StartSvg(Num(100), Num(100))>>
    \o (CASE a = 1 -> << Circle123, UseFill(Str("red")), Circle123, NoFill,
                         UseStroke(Str("blue"), Num(2)), Rect1234, NoStroke, TextHi,
                         UseFill(Str("green")) >>
          [] a = 2 -> << UseStroke(Str("navy"), Num(3)), Line0055, NoStroke,
                         UseFill(Str("gold")), Circle123 >>
          [] OTHER -> << Line0055, UseStroke(Str("red"), Num(2)), Line0055 >>)
StyleInputs == {In("style", a, 0, 0, 0) : a \in 1..3}

\* The programs of the family "shape":
\*   start svg width 10 height 10
\*   use fill "red" | no fill                 (b = 1 | b = 0)
\*   [use stroke "blue" width 2]              (c = 1)
\*   <shape a>       (1 circle, 2 rect, 3 line, 4 text, as in the family "early")
ShapeProgram(a, b, c) ==
    << StartSvg(Num(10), Num(10)), IF b = 1 THEN UseFill(Str("red")) ELSE NoFill >>
    \o (IF c = 1 THEN <<UseStroke(Str("blue"), Num(2))>> ELSE <<>>)
    \o <<EarlyStatements[a]>>
ShapeInputs == {In("shape", a, b, c, 0) : a \in 1..4, b \in 0..1, c \in 0..1}

\* The source texts of the family "countdown" (b is the argument of the call):
\* a = 1   to countdown(n):
\*         if n <= 0:
\*         give back 0
\*         otherwise:
\*         countdown(n - 1)
\*         end
\*         end
\*         print countdown(<b>)
\* a = 2   to countdown(n): if n <= 0: give back 0 otherwise: countdown(n - 1) end end
\*         print countdown(<b>)
CountdownSource(a, b) ==
    LET nl == IF a = 1 THEN <<Newline>> ELSE <<>>
    IN  Words(<<"to", "countdown">>) \o <<LP, Word("n"), RP, Colon>> \o nl
        \o Words(<<"if", "n">>) \o <<Punct("<="), Digit(0), Colon>> \o nl
        \o Words(<<"give", "back">>) \o <<Digit(0)>> \o nl
        \o <<Word("otherwise"), Colon>> \o nl
        \o <<Word("countdown"), LP, Word("n"), Punct("-"), Digit(1), RP>> \o nl
        \o <<Word("end")>> \o nl
        \o <<Word("end"), Newline>>
        \o Words(<<"print", "countdown">>) \o <<LP, Digit(b), RP>>
CountdownInputs == {In("countdown", a, b, 0, 0) : a \in 1..2, b \in 0..2}

\* The source texts of the family "callstmt":
\* a = 1   to greet():
\*         print "Hello there!"
\*         end
\*         greet()
\* a = 2   to countdown(n):
\*         if n <= 0:
\*         print "Blast off!"
\*         otherwise:
\*         print n
\*         countdown(n - 1)
\*         end
\*         end
\*         countdown(2)
\* a = 3   as a = 1, with `let r be greet()` for its last line
CallStmtSource(a) ==
    IF a = 2
    THEN Words(<<"to", "countdown">>) \o <<LP, Word("n"), RP, Colon, Newline>>
         \o Words(<<"if", "n">>) \o <<Punct("<="), Digit(0), Colon, Newline>>
         \o <<Word("print"), Quoted("Blast off!"), Newline>>
         \o <<Word("otherwise"), Colon, Newline>>
         \o Words(<<"print", "n">>) \o <<Newline>>
         \o <<Word("countdown"), LP, Word("n"), Punct("-"), Digit(1), RP, Newline>>
         \o <<Word("end"), Newline, Word("end"), Newline>>
         \o <<Word("countdown"), LP, Digit(2), RP>>
    ELSE Words(<<"to", "greet">>) \o <<LP, RP, Colon, Newline>>
         \o <<Word("print"), Quoted("Hello there!"), Newline>>
         \o <<Word("end"), Newline>>
         \o (IF a = 3 THEN Words(<<"let", "r", "be">>) ELSE <<>>)
         \o <<Word("greet"), LP, RP>>
CallStmtInputs == {In("callstmt", a, 0, 0, 0) : a \in 1..3}

\* The source texts of the family "notcond" (a = 0, 1, 5):
\*   let x be <a>
\*   if not x == 0:
\*   print "nonzero"
\*   otherwise:
\*   print "zero"
\*   end
NotCondSource(a) ==
    Words(<<"let", "x", "be">>) \o <<Digit(a), Newline>>
    \o Words(<<"if", "not", "x">>) \o <<Punct("=="), Digit(0), Colon, Newline>>
    \o <<Word("print"), Quoted("nonzero"), Newline>>
    \o <<Word("otherwise"), Colon, Newline>>
    \o <<Word("print"), Quoted("zero"), Newline>>
    \o <<Word("end")>>
NotCondInputs == {In("notcond", a, 0, 0, 0) : a \in {0, 1, 5}}

\* The source text of the family "docloop", the example of Loops.md:
\*   let x be 0
\*
\*   repeat x be x + 10 until x >= 100:
\*   print "x is now " + x
\*   end
DocLoopSource ==
    Words(<<"let", "x", "be">>) \o <<Digit(0), Newline, Newline>>
    \o Words(<<"repeat", "x", "be", "x">>)
    \o <<Punct("+"), Numeral(<<"1", "0">>), Word("until"), Word("x"), Punct(">="),
         Numeral(<<"1", "0", "0">>), Colon, Newline>>
    \o <<Word("print"), Quoted("x is now "), Punct("+"), Word("x"), Newline>>
    \o <<Word("end")>>
DocLoopInputs == {In("docloop", 0, 0, 0, 0)}

\* The source texts of the family "badbody", whose second line lacks its `be`:
\* b = 0          print 1
\*                let x 5
\*                print 2
\* b = 1, a = 1   repeat 2 times:
\*                let x 5
\*                end
\* b = 1, a = 2   repeat n times:
\*                let x 5
\*                end
BadBodySource(a, b) ==
    (IF b = 0 THEN <<Word("print"), Digit(1)>>
     ELSE <<Word("repeat"), IF a = 1 THEN Digit(2) ELSE Word("n"), Word("times"), Colon>>)
    \o <<Newline>> \o Words(<<"let", "x">>) \o <<Digit(5), Newline>>
    \o (IF b = 0 THEN <<Word("print"), Digit(2)>> ELSE <<Word("end")>>)
BadBodyInputs == {In("badbody", 1, 0, 0, 0), In("badbody", 1, 1, 0, 0), In("badbody", 2, 1, 0, 0)}

\* The programs of the family "finish":
\* a = 1   start svg width 10 height 10 / circle at (1, 2) radius 3 / finish svg /
\*         rect at (1, 2) width 3 height 4
\* a = 2   start svg width 10 height 10 / circle at (1, 2) radius 3
\* a = 3   print 1
\* a = 4   finish svg / start svg width 10 height 10 / circle at (1, 2) radius 3 /
\*         finish svg / finish svg
\* a = 5   start svg width 10 height 10 / finish svg
FinishProgram(a) ==
    CASE a = 1 -> <<StartSvg(Num(10), Num(10)), Circle123, FinishSvg, Rect1234>>
      [] a = 2 -> <<StartSvg(Num(10), Num(10)), Circle123>>
      [] a = 3 -> <<PrintStmt(Num(1))>>
      [] a = 4 -> <<FinishSvg, StartSvg(Num(10), Num(10)), Circle123, FinishSvg, FinishSvg>>
      [] OTHER -> <<StartSvg(Num(10), Num(10)), FinishSvg>>
FinishInputs == {In("finish", a, 0, 0, 0) : a \in 1..5}

\* The operands of the family "logic": true, false, 0, - 2.5 (the negation of
\* the literal 2.5, as parseUnary builds it), "", "s", null (the result of a
\* function without give back) and a function.
Operands ==
    << Bool(TRUE), Bool(FALSE), Num(0), Unary("neg", Half(5)), Str(""), Str("s"),
       Call("nothing", <<>>), Var("nothing") >>

\* The programs of the family "logic" (b = 0: and, b = 1: or):
\*   let n be 0
\*   to mark(v): set n to n + 1 / give back v end
\*   to nothing(): end
\*   print <operand a> and|or mark(<operand c>)         (d = 0)
\*   print <operand a> and|or boom                      (d = 1)
\*   print n
LogicProgram(a, b, c, d) ==
    << VarDecl("n", Num(0)),
       FnDef("mark", <<Param("v")>>,
             <<Assign("n", Binary("+", Var("n"), Num(1))), Return(Var("v"))>>),
       FnDef("nothing", <<>>, <<>>),
       PrintStmt(Binary(IF b = 0 THEN "and" ELSE "or", Operands[a],
                        IF d = 0 THEN Call("mark", <<Arg(Operands[c])>>) ELSE Var("boom"))),
       PrintStmt(Var("n")) >>
LogicInputs ==
    {In("logic", a, b, c, 0) : a \in 1..Len(Operands), b \in 0..1, c \in 1..Len(Operands)}
        \cup {In("logic", a, b, 1, 1) : a \in 1..2, b \in 0..1}

\* The statements that fail in the family "fail":
\* a = 1   print boom
\* a = 2   print 1 < "a"
\* a = 3   circle at ("x", 1) radius 1
\* a = 4   print 1 - "a"
\* a = 5   use fill 3
\* a = 6   print f()                        (f's body is print boom)
\* a = 7   print -"s"
\* a = 8   repeat 3 times as i: if i == 1: print boom end / print i end
\* a = 9   text 1 at (1, 2)
\* a = 10  print nofn()
FailingStatements ==
    << PrintStmt(Var("boom")),
       PrintStmt(Binary("<", Num(1), Str("a"))),
       DrawCircle(Str("x"), Num(1), Num(1)),
       PrintStmt(Binary("-", Num(1), Str("a"))),
       UseFill(Num(3)),
       PrintStmt(Call("f", <<>>)),
       PrintStmt(Unary("neg", Str("s"))),
       RepeatTimes(Num(3), "i",
           << If(<<Branch(Binary("==", Var("i"), Num(1)), <<PrintStmt(Var("boom"))>>)>>,
                 <<>>),
              PrintStmt(Var("i")) >>),
       DrawText(Num(1), Num(1), Num(2), NoExpr),
       PrintStmt(Call("nofn", <<>>)) >>

\* The programs of the family "fail":
\*   start svg width 10 height 10 / circle at (1, 2) radius 3 /
\*   to f(): print boom end / <failing statement a> / print "after" /
\*   rect at (1, 2) width 3 height 4
FailProgram(a) ==
    << StartSvg(Num(10), Num(10)), Circle123,
       FnDef("f", <<>>, <<PrintStmt(Var("boom"))>>),
       FailingStatements[a],
       PrintStmt(Str("after")), Rect1234 >>
FailInputs == {In("fail", a, 0, 0, 0) : a \in 1..Len(FailingStatements)}

\* The programs of the family "restore" (a = 1, 2, 3: f's body is `print x`,
\* `give back x`, `print boom`):
\*   let x be 1
\*   to f(x): <body a> end
\*   to g(x): let r be f(x + 1) / give back x end
\*   print g(10)
\*   print x
RestoreProgram(a) ==
    << VarDecl("x", Num(1)),
       FnDef("f", <<Param("x")>>,
             << CASE a = 1 -> PrintStmt(Var("x"))
                  [] a = 2 -> Return(Var("x"))
                  [] OTHER -> PrintStmt(Var("boom")) >>),
       FnDef("g", <<Param("x")>>,
             << VarDecl("r", Call("f", <<Arg(Binary("+", Var("x"), Num(1)))>>)),
                Return(Var("x")) >>),
       PrintStmt(Call("g", <<Arg(Num(10))>>)),
       PrintStmt(Var("x")) >>
RestoreInputs == {In("restore", a, 0, 0, 0) : a \in 1..3}

\* The statements of the family "toplevel" that execute give back with no call
\* active:
\* a = 1   give back 5
\* a = 2   give back
\* a = 3   if true: give back 1 end
\* a = 4   repeat 3 times: print "in" / give back end
\* a = 5   repeat x be x + 1 until x >= 3: give back x end
TopLevelReturns ==
    << Return(Num(5)),
       Return(NoExpr),
       If(<<Branch(Bool(TRUE), <<Return(Num(1))>>)>>, <<>>),
       RepeatTimes(Num(3), "", <<PrintStmt(Str("in")), Return(NoExpr)>>),
       RepeatUntil(Assign("x", Binary("+", Var("x"), Num(1))),
                   Binary(">=", Var("x"), Num(3)), <<Return(Var("x"))>>) >>

\* The programs of the family "toplevel":
\*   let x be 0 / [start svg width 10 height 10 / circle at (1, 2) radius 3] (b = 1)
\*   <statement a> / print "after" / rect at (1, 2) width 3 height 4
TopLevelProgram(a, b) ==
    <<VarDecl("x", Num(0))>>
    \o (IF b = 1 THEN <<StartSvg(Num(10), Num(10)), Circle123>> ELSE <<>>)
    \o <<TopLevelReturns[a], PrintStmt(Str("after")), Rect1234>>
TopLevelInputs == {In("toplevel", a, b, 0, 0) : a \in 1..Len(TopLevelReturns), b \in 0..1}

Inputs ==
    UntilInputs \cup TimesInputs \cup BlockInputs \cup SetInputs \cup LexInputs
        \cup ShareInputs \cup ArgsInputs \cup DefaultsInputs \cup CanvasInputs
        \cup NamedInputs \cup ReturnInputs \cup RecursionInputs
        \cup CountdownInputs \cup CallStmtInputs
        \cup EarlyInputs \cup ExampleInputs \cup DocInputs \cup StyleInputs \cup ShapeInputs
        \cup NotCondInputs \cup DocLoopInputs \cup BadBodyInputs \cup FinishInputs
        \cup LogicInputs \cup FailInputs \cup RestoreInputs \cup TopLevelInputs

\* The families of inputs that are given as source texts, and their texts.
SourceFamilies == {"countdown", "callstmt", "example", "notcond", "docloop", "badbody"}
Source(in) ==
    CASE in.fam = "countdown" -> CountdownSource(in.a, in.b)
      [] in.fam = "callstmt" -> CallStmtSource(in.a)
      [] in.fam = "example" -> ExampleSource
      [] in.fam = "notcond" -> NotCondSource(in.a)
      [] in.fam = "docloop" -> DocLoopSource
      [] in.fam = "badbody" -> BadBodySource(in.a, in.b)
      [] OTHER -> <<>>

\* Parser.parseProgram's result for an input of the other families.
Program(in) ==
    CASE in.fam = "until" -> UntilProgram(in.a, in.b)
      [] in.fam = "times" -> TimesProgram(in.a, in.b, in.c, in.d)
      [] in.fam = "block" -> BlockProgram(in.a)
      [] in.fam = "set" -> SetProgram(in.a, in.b)
      [] in.fam = "lex" -> LexProgram(in.a)
      [] in.fam = "share" -> ShareProgram(in.a, in.b)
      [] in.fam = "args" -> ArgsProgram(in.a)
      [] in.fam = "canvas" -> CanvasProgram(in.a)
      [] in.fam = "named" -> NamedProgram(in.a)
      [] in.fam = "return" -> ReturnProgram(in.a, in.b)
      [] in.fam = "recursion" -> RecursionProgram(in.b, in.c)
      [] in.fam = "early" -> EarlyProgram(in.a)
      [] in.fam = "doc" -> DocProgram(in.a)
      [] in.fam = "style" -> StyleProgram(in.a)
      [] in.fam = "shape" -> ShapeProgram(in.a, in.b, in.c)
      [] in.fam = "logic" -> LogicProgram(in.a, in.b, in.c, in.d)
      [] in.fam = "fail" -> FailProgram(in.a)
      [] in.fam = "finish" -> FinishProgram(in.a)
      [] in.fam = "restore" -> RestoreProgram(in.a)
      [] in.fam = "toplevel" -> TopLevelProgram(in.a, in.b)
      [] OTHER -> DefaultsProgram(in.a)

(***************************************************************************)
(* compileAndRenderSVG, interpreter.ts:1100-1107: a fresh Interpreter      *)
(* (lines 828-830) runs the parsed program.  The function declares one     *)
(* parameter, the source; a second argument (the hosts pass { stepLimit }) *)
(* is not read.                                                            *)
(***************************************************************************)
NoBudget == [given |-> FALSE, limit |-> 0]
Budget(n) == [given |-> TRUE, limit |-> n]

\* lex.tokenize() and parser.parseProgram() for an input
Parsed(in) ==
    IF in.fam \in SourceFamilies THEN parseProgram(tokenize(Source(in)))
    ELSE Ok(Program(in), 0)

\* Lines 1101-1105: the source is tokenized and parsed and a new Interpreter is
\* about to run the program; a RuntimeError of the Lexer or the Parser leaves the
\* entry point.
Compile ==
    /\ status = "compiling"
    /\ LET p == Parsed(input)
       IN  IF p.ok
           THEN /\ status' = "running"
                /\ kont' = ExecAll(p.v)
                /\ err' = err
           ELSE /\ status' = "error"
                /\ err' = p.msg
                /\ kont' = kont
    /\ UNCHANGED <<input, budget, frames, env, vals, printSink, svg, result, steps>>
    /\ UNCHANGED previewVars

\* The entry point is called outside the live preview: no preview is mounted.
NoPreview ==
    /\ langText = ""
    /\ svgText = ""
    /\ compileError = "null"  \* NoError
    /\ effects = <<>>
    /\ windowWorker = FALSE
    /\ workerCompile = FALSE
    /\ hung = FALSE
    /\ posted = <<>>
    /\ compiled = {}
    /\ setter = 0

Init ==
    /\ NoPreview
    /\ input \in Inputs
    /\ budget \in {NoBudget, Budget(SmallBudget)}
    /\ frames = <<[b |-> <<>>, parent |-> 0]>>
    /\ env = GlobalEnv
    /\ kont = <<>>
    /\ vals = <<>>
    /\ printSink = <<>>
    /\ svg = NewSvgBuilder
    /\ status = "compiling"
    /\ err = ""
    /\ result = ""
    /\ steps = 0

Next ==
    \/ Compile
    \/ ExecVarDecl \/ DoDeclare
    \/ ExecAssign \/ DoAssign
    \/ ExecPrint \/ DoPrint
    \/ ExecRepeatTimes \/ TimesInit \/ TimesIter
    \/ ExecIf \/ IfTest
    \/ ExecFnDef
    \/ ExecReturn \/ ThrowReturn
    \/ ExecRepeatUntil \/ UntilTest
    \/ ExecStartSvg \/ StartSvgWidth \/ StartSvgHeight \/ ExecFinishSvg
    \/ ExecUseFill \/ DoUseFill \/ ExecUseStroke \/ DoUseStroke
    \/ ExecNoFill \/ ExecNoStroke
    \/ ExecDrawCircle \/ ExecDrawRect \/ ExecDrawLine \/ ExecDrawText \/ TextCheck
    \/ AsNum \/ Draw
    \/ EvalLiteral \/ EvalVar \/ EvalGroup
    \/ EvalUnary \/ ApplyUnary
    \/ EvalBinary \/ ApplyBinary
    \/ EvalCall \/ BindPositional \/ BindParam \/ BindDefaults \/ BindNamed
    \/ CallEnter \/ CallEnd
    \/ Finish

Spec == Init /\ [][Next]_vars

(***************************************************************************)
(* The live preview: the compile effect of SvgLivePreview                  *)
(* (src/app/SvgLivePreview.tsx:56-120) and the worker it starts            *)
(* (src/unnamed/part_000).  The effect runs once for every value of        *)
(* langText; its closure holds cancelled, the debounce timer tid and, once *)
(* the debounce has fired, the worker, the request id, finished and the    *)
(* timer to.  Timers are not measured: a timer that is set and not cleared *)
(* may fire at any later moment.  The host thread runs one handler at a    *)
(* time, to completion; a worker runs beside it.  The entry point is seen  *)
(* from outside here: a text makes it return a document, throw, or never   *)
(* return.                                                                 *)
(***************************************************************************)
\* compileError is null
NoError == "null"
\* The texts typed into the editor, named by what the entry point does with them.
Texts == {"drawing A", "drawing B", "mistake", "endless"}
\* useState<string>(sampleLang): the sample program is a drawing
sampleLang == "drawing A"
NotAvailable == "compileAndRenderSVG not available in worker"
TimedOut == "Execution timed out"

\* compileAndRenderSVG(text): it returns markup, throws an error with a
\* message, or does not return (the budget argument is not a parameter of it).
Outcome(txt) ==
    CASE txt = "drawing A" -> [returns |-> TRUE, ok |-> TRUE, svg |-> "<svg A>", error |-> ""]
      [] txt = "drawing B" -> [returns |-> TRUE, ok |-> TRUE, svg |-> "<svg B>", error |-> ""]
      [] txt = "mistake" ->
            [returns |-> TRUE, ok |-> FALSE, svg |-> "", error |-> "Undefined variable 'q'"]
      [] OTHER -> [returns |-> FALSE, ok |-> FALSE, svg |-> "", error |-> ""]

\* The body of the effect: let cancelled = false; const tid = setTimeout(..., 200)
RunEffect(txt) ==
    [langText |-> txt, cancelled |-> FALSE, tid |-> "pending", worker |-> "none",
     id |-> 0, finished |-> FALSE, to |-> "none", inbox |-> <<>>, outbox |-> <<>>]

\* A cleanup that clears the debounce timer and leaves cancelled alone.
CleanupTimerOnly(e) ==
    [e EXCEPT !.tid = IF @ = "pending" THEN "cleared" ELSE @]

\* return () => { cancelled = true; clearTimeout(tid); }
Cleanup(e) ==
    [e EXCEPT !.cancelled = TRUE, !.tid = IF @ = "pending" THEN "cleared" ELSE @]

\* worker.terminate(): the worker stops, and the messages not yet handled
\* on either side are discarded
Terminate(e) == [e EXCEPT !.worker = "terminated", !.inbox = <<>>, !.outbox = <<>>]

\* setSvgText(svg); setCompileError(null)   or   setCompileError(message)
Show(i, ok, markup, error) ==
    /\ svgText' = IF ok THEN markup ELSE svgText
    /\ compileError' = IF ok THEN NoError ELSE error
    /\ setter' = i

\* try { const svg = compileAndRenderSVG(langText, ...); ... } catch (e) { ... }
\* on the host thread, inside a handler of effect i
HostCompiles(i) ==
    LET o == Outcome(effects[i].langText)
    IN  /\ compiled' = compiled \cup {i}
        /\ hung' = ~o.returns
        /\ IF o.returns /\ ~effects[i].cancelled
           THEN Show(i, o.ok, o.svg, o.error)
           ELSE UNCHANGED <<svgText, compileError, setter>>

\* The component is mounted: the cleanup of its last effect has not run.
Mounted == effects # <<>> /\ ~effects[Len(effects)].cancelled

\* setLangText(text) with a text other than the present one: React runs the
\* cleanup of the effect of the present text, then the effect for the new one.
SetLangText ==
    \E txt \in Texts \ {langText} :
        /\ ~hung
        /\ Mounted
        /\ Len(effects) <= MaxEdits
        /\ langText' = txt
        /\ effects' = Append([effects EXCEPT ![Len(effects)] = Cleanup(@)], RunEffect(txt))
        /\ UNCHANGED <<svgText, compileError, windowWorker, workerCompile, hung,
                       posted, compiled, setter>>
        /\ UNCHANGED coreVars

\* The texts typed into the "Generated SVG" textarea.
TypedSvg == {"<svg>typed</svg>"}

\* onChange={(e) => setSvgText(e.target.value)} of the "Generated SVG"
\* textarea: the user sets the markup on display; no effect runs, langText
\* being as it was.
TypeSvg ==
    \E typed \in TypedSvg \ {svgText} :
        /\ ~hung
        /\ Mounted
        /\ svgText' = typed
        /\ setter' = 0
        /\ UNCHANGED <<langText, compileError, effects, windowWorker, workerCompile,
                       hung, posted, compiled>>
        /\ UNCHANGED coreVars

\* The component is unmounted: React runs the cleanup of the last effect and
\* no effect after it.
Unmount ==
    /\ ~hung
    /\ Mounted
    /\ effects' = [effects EXCEPT ![Len(effects)] = Cleanup(@)]
    /\ UNCHANGED <<langText, svgText, compileError, windowWorker, workerCompile,
                   hung, posted, compiled, setter>>
    /\ UNCHANGED coreVars

\* The debounce timer tid fires: SvgLivePreview.tsx:58-112
DebounceFires ==
    \E i \in 1..Len(effects) :
        /\ ~hung
        /\ effects[i].tid = "pending"
        /\ IF windowWorker
           THEN LET m == [type |-> "compile", id |-> i, source |-> effects[i].langText]
                IN  /\ effects' = [effects EXCEPT ![i].tid = "fired", ![i].worker = "running",
                                                   ![i].id = i, ![i].to = "pending",
                                                   ![i].inbox = <<m>>]
                    /\ posted' = Append(posted, m)
                    /\ compiled' = compiled \cup {i}
                    /\ UNCHANGED <<svgText, compileError, hung, setter>>
           ELSE /\ effects' = [effects EXCEPT ![i].tid = "fired"]
                /\ HostCompiles(i)
                /\ posted' = posted
        /\ UNCHANGED <<langText, windowWorker, workerCompile>>
        /\ UNCHANGED coreVars

\* self.onmessage of the worker, for the message at the head of its queue:
\* part_000:7-38
WorkerReply(msg) ==
    IF msg.type # "compile"  \* an init message without scriptUrl is not answered
    THEN <<>>
    ELSE IF ~workerCompile
    THEN <<[id |-> msg.id, ok |-> FALSE, svg |-> "", error |-> NotAvailable]>>
    ELSE LET o == Outcome(msg.source)
         IN  IF ~o.returns THEN <<>>
             ELSE <<[id |-> msg.id, ok |-> o.ok, svg |-> o.svg, error |-> o.error]>>

WorkerOnMessage ==
    \E i \in 1..Len(effects) :
        /\ effects[i].worker = "running"
        /\ effects[i].inbox # <<>>
        /\ effects' = [effects EXCEPT ![i].inbox = Tail(@),
                                       ![i].outbox = @ \o WorkerReply(Head(effects[i].inbox))]
        /\ UNCHANGED <<langText, svgText, compileError, windowWorker, workerCompile,
                       hung, posted, compiled, setter>>
        /\ UNCHANGED coreVars

\* worker.onmessage of the host, for the reply at the head of the queue:
\* SvgLivePreview.tsx:76-101
HostOnMessage ==
    \E i \in 1..Len(effects) :
        /\ ~hung
        /\ effects[i].worker = "running"
        /\ effects[i].outbox # <<>>
        /\ LET m == Head(effects[i].outbox)
           IN  IF m.id # effects[i].id
               THEN /\ effects' = [effects EXCEPT ![i].outbox = Tail(@)]
                    /\ UNCHANGED <<svgText, compileError, hung, compiled, setter>>
               ELSE /\ effects' =
                        [effects EXCEPT ![i] =
                            Terminate([@ EXCEPT !.finished = TRUE,
                                                !.to = IF @ = "pending" THEN "cleared" ELSE @])]
                    /\ IF effects[i].cancelled
                       THEN UNCHANGED <<svgText, compileError, hung, compiled, setter>>
                       ELSE IF m.ok
                       THEN Show(i, TRUE, m.svg, "") /\ UNCHANGED <<hung, compiled>>
                       ELSE IF m.error = NotAvailable
                       THEN HostCompiles(i)
                       ELSE Show(i, FALSE, "", m.error) /\ UNCHANGED <<hung, compiled>>
        /\ UNCHANGED <<langText, windowWorker, workerCompile, posted>>
        /\ UNCHANGED coreVars

\* A timeout that reports and leaves the worker running.
TimeoutFiresKeepsWorker ==
    \E i \in 1..Len(effects) :
        /\ ~hung
        /\ effects[i].to = "pending"
        /\ effects' = [effects EXCEPT ![i].to = "fired"]
        /\ IF ~effects[i].finished /\ ~effects[i].cancelled
           THEN Show(i, FALSE, "", TimedOut)
           ELSE UNCHANGED <<svgText, compileError, setter>>
        /\ UNCHANGED <<langText, windowWorker, workerCompile, hung, posted, compiled>>
        /\ UNCHANGED coreVars

\* The timer to fires: SvgLivePreview.tsx:68-74
TimeoutFires ==
    \E i \in 1..Len(effects) :
        /\ ~hung
        /\ effects[i].to = "pending"
        /\ effects' =
            [effects EXCEPT ![i] =
                IF @.finished THEN [@ EXCEPT !.to = "fired"]
                ELSE Terminate([@ EXCEPT !.to = "fired"])]
        /\ IF ~effects[i].finished /\ ~effects[i].cancelled
           THEN Show(i, FALSE, "", TimedOut)
           ELSE UNCHANGED <<svgText, compileError, setter>>
        /\ UNCHANGED <<langText, windowWorker, workerCompile, hung, posted, compiled>>
        /\ UNCHANGED coreVars

\* The entry point is not called by anyone but the preview.
NoRun ==
    /\ input = In("none", 0, 0, 0, 0)
    /\ budget = NoBudget
    /\ frames = <<[b |-> <<>>, parent |-> 0]>>
    /\ env = GlobalEnv
    /\ kont = <<>>
    /\ vals = <<>>
    /\ printSink = <<>>
    /\ svg = NewSvgBuilder
    /\ status = "compiling"
    /\ err = ""
    /\ result = ""
    /\ steps = 0

\* The component is mounted: the effect has run for the sample program.
PreviewInit ==
    /\ NoRun
    /\ langText = sampleLang
    /\ svgText = ""
    /\ compileError = NoError
    /\ effects = <<RunEffect(sampleLang)>>
    /\ windowWorker \in BOOLEAN
    /\ workerCompile \in BOOLEAN
    /\ hung = FALSE
    /\ posted = <<>>
    /\ compiled = {}
    /\ setter = 0

PreviewNext ==
    \/ SetLangText
    \/ TypeSvg
    \/ Unmount
    \/ DebounceFires
    \/ WorkerOnMessage
    \/ HostOnMessage
    \/ TimeoutFires

PreviewSpec == PreviewInit /\ [][PreviewNext]_vars

(***************************************************************************)
(* Properties.                                                             *)
(***************************************************************************)
Done == status = "done"
Finished == status \in {"done", "error"}
\* The binding of a name in the global frame, Undef when it has none.
Global(name) == IF Has(frames, GlobalEnv, name) THEN frames[GlobalEnv].b[name] ELSE Undef

\* C1: when the entry point is given an execution budget, an evaluation that has
\* made more calls of exec and eval than the budget has stopped with an error (it
\* does not go on running).
C1_BudgetStopsEvaluation ==
    (budget.given /\ steps > budget.limit) => status = "error"

\* The number of updates `repeat x be x + b until x >= 100` makes from x = a: the
\* least k >= 1 with a + k * b >= 100.
UntilRounds(a, b) == CHOOSE k \in 1..100 : a + k * b >= 100 /\ \A h \in 1..(k - 1) : a + h * b < 100
UntilTerminates(a, b) == \E k \in 1..100 : a + k * b >= 100

\* C2: in `repeat <update> until <cond>` every round runs the update, then tests
\* the condition, and runs the body only when it is false.  For the programs
\* `let x be a / repeat x be x + b until x >= 100: print x end`: the i-th run of
\* the body sees x = a + i * b, always below 100; the loop ends at the first update
\* that makes x >= 100 (at least one update is made, also when a >= 100), the body
\* having run once per earlier update; from a = 0 in steps of 10 that is 9 runs,
\* x = 10, 20, ..., 90.
C2_UpdateTestBody ==
    input.fam = "until" =>
        /\ \A i \in 1..Len(printSink) :
              /\ printSink[i] = ToString(input.a + i * input.b)
              /\ input.a + i * input.b < 100
        /\ Done =>
              /\ UntilTerminates(input.a, input.b)
              /\ Global("x") = NumV(input.a + UntilRounds(input.a, input.b) * input.b)
              /\ Len(printSink) = UntilRounds(input.a, input.b) - 1
        /\ (Done /\ input.a = 0 /\ input.b = 10) =>
              printSink = <<"10", "20", "30", "40", "50", "60", "70", "80", "90">>

\* C2 witness: the documented loop has ended after its ninth run of the body.
C2_Witness ==
    /\ input.fam = "until" /\ input.a = 0 /\ input.b = 10
    /\ Done
    /\ Len(printSink) = 9

\* The number of runs `repeat n times` makes for each count of CountExprs:
\* -1, 0, 1, 2, 2.5, 3.
TimesRuns == <<0, 0, 1, 2, 2, 3>>

\* C3: `repeat <count> times [as v]` runs its body floor(count) times (no times for
\* a count below 1), the count being read once at loop entry; at the start of the
\* k-th run the loop variable (v, or `it`) holds k, whatever the body assigned to
\* it or to the variable of the count expression in the runs before.
C3_CountedLoop ==
    input.fam = "times" =>
        /\ \A i \in 1..Len(printSink) : printSink[i] = ToString(i)
        /\ Len(printSink) <= TimesRuns[input.a]
        /\ Done => Len(printSink) = TimesRuns[input.a]

\* C3 witness: a loop over the count 2.5 whose body overwrites the loop variable
\* has ended after two runs.
C3_Witness ==
    /\ input.fam = "times" /\ input.a = 5 /\ input.d = 1
    /\ Done
    /\ printSink = <<"1", "2">>

\* C4: after a counted loop the enclosing frame holds for the loop variable's name
\* what it held before the loop: the value 7 when the program declared it, no
\* binding when it did not.
C4_LoopVariableScoped ==
    (input.fam = "times" /\ Done) =>
        Global(TimesVar(input.b)) = (IF input.c = 1 THEN NumV(7) ELSE Undef)

\* C5: `let x be 2` inside a block only shadows the outer x: after the block the
\* program prints the outer value, 1.
C5_BlockLetShadows ==
    (input.fam = "block" /\ Done) => printSink = <<"1">>

\* The frames a lookup from frame e visits, innermost first.
RECURSIVE Chain(_, _)
Chain(fr, e) == IF fr[e].parent = 0 THEN <<e>> ELSE <<e>> \o Chain(fr, fr[e].parent)

\* The frame `set <name>` is to change: the nearest frame on the chain from the
\* active frame that binds the name, the global frame when none does.
AssignTarget(name) ==
    LET ch == Chain(frames, env)
        holders == {i \in 1..Len(ch) : name \in DOMAIN frames[ch[i]].b}
    IN  IF holders = {} THEN GlobalEnv
        ELSE ch[CHOOSE i \in holders : \A h \in holders : i <= h]

\* What the programs of the family "set" print.
SetPrints(a, b) ==
    CASE a = 1 -> <<ToString(b)>>
      [] a = 2 -> <<ToString(b), "1">>
      [] a = 3 -> <<"0", ToString(b)>>
      [] a = 4 -> <<"null", ToString(b)>>
      [] OTHER -> <<ToString(b)>>

\* C6: `set <name> to <expr>` changes one binding and nothing else: in the nearest
\* frame on the chain that binds the name, or in the global frame when no frame
\* does, the name now holds the value; every other binding of every frame is as
\* before and no frame is added.  A later reference that resolves to that frame
\* yields the value: `let x be 1 / set x to b / print x` prints b, and so do the
\* other programs of the family through the frame their `set` reached.
C6_SetChangesNearestBinding ==
    /\ [][At("assign") =>
            LET t == AssignTarget(Top.name)
            IN  /\ Len(frames') = Len(frames)
                /\ \A f \in 1..Len(frames) : f # t => frames'[f] = frames[f]
                /\ frames'[t].parent = frames[t].parent
                /\ DOMAIN frames'[t].b = DOMAIN frames[t].b \cup {Top.name}
                /\ frames'[t].b[Top.name] = Head(vals)
                /\ \A n \in DOMAIN frames[t].b :
                      n # Top.name => frames'[t].b[n] = frames[t].b[n]]_vars
    /\ []((input.fam = "set" /\ Done) => printSink = SetPrints(input.a, input.b))

\* C6 witness: a `set z` executed in a call frame, with z bound nowhere, has made
\* its binding in the global frame and not in the call frame.
C6_Witness ==
    /\ input.fam = "set" /\ input.a = 4
    /\ Len(frames) = 2
    /\ Has(frames, GlobalEnv, "z")
    /\ ~Has(frames, 2, "z")
    /\ Done

\* What the programs of the family "lex" print.
LexPrints(a) == IF a = 1 THEN <<"1">> ELSE IF a = 2 THEN <<>> ELSE <<"3">>

\* C7: the frame made for a call has the called function's closure as its
\* enclosing frame (in every call of every program).  So g, called from f(y) with
\* y = 2, sees the global y = 1, fails with an undefined variable when only the
\* caller binds y, and a function made by mk(3) and called from caller(4) sees 3.
C7_LexicalScope ==
    /\ (At("bindPos") /\ Top.i = 1) =>
            frames[Top.c.callEnv].parent = getEnv(frames, env, Top.c.callee).closure
    /\ (input.fam = "lex" /\ Finished) =>
            /\ printSink = LexPrints(input.a)
            /\ IF input.a = 2
               THEN status = "error" /\ err = "Undefined variable 'y'"
               ELSE Done

\* C7 witness: the call whose caller binds y = 4 and whose closure binds y = 3 has
\* returned 3.
C7_Witness ==
    /\ input.fam = "lex" /\ input.a = 3
    /\ Done
    /\ printSink = <<"3">>

\* What the programs of the family "share" print.
SharePrints(a, b) ==
    IF a = 1 THEN <<"1", ToString(b), "0", ToString(b + 10)>>
    ELSE <<ToString(b + 1), ToString(b + 2)>>

\* C8: a function reads the variables of its defining environment as they are at
\* the call, and its `set` on them is seen by the defining scope: get() gives 1,
\* then b after `set c to b`; after bump() the global c is b + 10; the function
\* made by mk(b) gives b + 1 and then b + 2.
C8_ClosureShared ==
    input.fam = "share" =>
        /\ Len(printSink) <= Len(SharePrints(input.a, input.b))
        /\ \A i \in 1..Len(printSink) : printSink[i] = SharePrints(input.a, input.b)[i]
        /\ Done => printSink = SharePrints(input.a, input.b)

\* C8 witness: the program with b = 2 has ended, having printed 1, 2, 0 and 12.
C8_Witness ==
    /\ input.fam = "share" /\ input.a = 1 /\ input.b = 2
    /\ Done
    /\ printSink = <<"1", "2", "0", "12">>

\* The value the call f(args) is to give parameter j of params: that of the last
\* named argument for it, else of the j-th unnamed argument, else of its default
\* (arguments and defaults of the family "args" are number literals).
ExpectedParam(params, args, j) ==
    LET unnamed == SelectSeq(args, LAMBDA x : x.name = "")
        named == SelectSeq(args, LAMBDA x : x.name = params[j].name)
    IN  IF named # <<>> THEN named[Len(named)].expr.v
        ELSE IF j <= Len(unnamed) THEN unnamed[j].expr.v
        ELSE IF params[j].default.k # "None" THEN params[j].default.v
        ELSE Undef

\* C9: when the body of f(a, b, c = 30) is entered, each parameter holds the value
\* of the named argument for it if there is one, else of the unnamed argument at
\* its position (counting unnamed arguments only), else of its default, and the
\* frame binds nothing else; the body sees these values.
C9_ArgumentBinding ==
    input.fam = "args" =>
        /\ At("callEnter") =>
              /\ DOMAIN frames[Top.c.callEnv].b \subseteq {"a", "b", "c"}
              /\ \A j \in 1..3 :
                    LET x == ExpectedParam(ArgsParams, ArgLists[input.a], j)
                    IN  IF x.t = "undef"
                        THEN ~Has(frames, Top.c.callEnv, ArgsParams[j].name)
                        ELSE /\ Has(frames, Top.c.callEnv, ArgsParams[j].name)
                             /\ frames[Top.c.callEnv].b[ArgsParams[j].name] = x
        /\ Done =>
              printSink =
                  <<String(ExpectedParam(ArgsParams, ArgLists[input.a], 1)) \o ","
                    \o String(ExpectedParam(ArgsParams, ArgLists[input.a], 2)) \o ","
                    \o String(ExpectedParam(ArgsParams, ArgLists[input.a], 3))>>

\* C9 witness: f(1, c = 3, 2) has returned with a = 1, b = 2, c = 3.
C9_Witness ==
    /\ input.fam = "args" /\ input.a = 4
    /\ Done
    /\ printSink = <<"1,2,3">>

\* C10: with `to f(a, b = a + 1)`, f(5) binds b to 6 whatever the caller's
\* variables are: every program of the family "defaults" ends by printing 6.
C10_DefaultSeesParameters ==
    (input.fam = "defaults" /\ Finished) => (Done /\ printSink = <<"6">>)

\* What the programs of the family "named" are to print.
NamedPrints(a) == IF a = 2 THEN <<"5", "0">> ELSE <<"3">>

\* C11: the default of a parameter that the call supplies by a named argument is
\* not evaluated: f(1, b = 2) over `to f(a, b = boom)` gives 3 although boom is
\* undefined, and f(1, b = 5) over `to f(a, b = tick())` leaves the counter that
\* tick() advances at 0.
C11_NamedArgumentSkipsDefault ==
    (input.fam = "named" /\ Finished) => (Done /\ printSink = NamedPrints(input.a))

\* The argument lists of ArgLists that are in error, and the failure of each.
ArgsError(a) ==
    CASE a = 10 -> "Missing argument 'b' for f"
      [] a = 11 -> "Too many arguments to f"
      [] a = 12 -> "Unknown parameter 'z' for f"
      [] a = 13 -> "Missing argument 'a' for f"
      [] a = 14 -> "Too many arguments to f"
      [] OTHER -> ""

\* C12: a call with more unnamed arguments than parameters, with a named argument
\* that matches no parameter, or with a parameter left unbound after positional,
\* default and named binding fails with the error of its kind, and its body is
\* never started; whenever a body is started (in any program), every parameter of
\* the called function is bound in the frame the body runs in.
C12_CallArgumentErrors ==
    /\ [][Len(ActiveCalls') > Len(ActiveCalls) =>
            /\ At("callEnter")
            /\ \A j \in 1..Len(Top.c.params) : Has(frames', env', Top.c.params[j].name)]_vars
    /\ []((input.fam = "args" /\ ArgsError(input.a) # "") =>
            /\ ActiveCalls = <<>>
            /\ printSink = <<>>
            /\ ~Done
            /\ Finished => err = ArgsError(input.a))
    /\ []((input.fam = "args" /\ ArgsError(input.a) = "") => status # "error")

\* C12 witness: f(1, 2, z = 3) has failed on its unknown named argument, nothing
\* printed.
C12_Witness ==
    /\ input.fam = "args" /\ input.a = 12
    /\ status = "error"
    /\ err = "Unknown parameter 'z' for f"
    /\ printSink = <<>>

\* The sequence of n copies of s.
Copies(n, s) == [i \in 1..n |-> s]

\* What the programs of the family "return" are to print.
ReturnPrints(a, b) ==
    CASE a = 1 -> IF b <= 3 THEN [i \in 1..(b - 1) |-> ToString(i)] \o <<ToString(b * 10)>>
                  ELSE <<"1", "2", "3", "after", "-1">>
      [] a = 2 -> <<"null">>
      [] a = 3 -> <<"null">>
      [] a = 4 -> Copies(b - 1, "r") \o <<ToString(b)>>
      [] OTHER -> <<"o", ToString(1 + b)>>

\* C13: `give back e` ends the running call at once, from inside conditionals and
\* loops: the statements after it and the remaining runs of the enclosing loops do
\* not execute, and the call yields the value of e, null when e is omitted; only
\* the innermost call ends (its caller goes on); a body that reaches its end
\* yields null.  At every moment the lines printed are a prefix of the expected
\* ones, and every program of the family ends having printed exactly them.
C13_GiveBackEndsCall ==
    input.fam = "return" =>
        /\ status # "error"
        /\ Len(printSink) <= Len(ReturnPrints(input.a, input.b))
        /\ \A i \in 1..Len(printSink) : printSink[i] = ReturnPrints(input.a, input.b)[i]
        /\ Done => printSink = ReturnPrints(input.a, input.b)

\* C13 witness: f(2) has returned 20 from inside the conditional in the second run
\* of its loop.
C13_Witness ==
    /\ input.fam = "return" /\ input.a = 1 /\ input.b = 2
    /\ Done
    /\ printSink = <<"1", "20">>

\* The frames of the running activations: the active one, then that of the caller
\* of each running call, down to the frame of the top level.
Activations == <<env>> \o [i \in 1..Len(ActiveCalls) |-> ActiveCalls[i].prevEnv]

RECURSIVE Factorial(_)
Factorial(n) == IF n <= 1 THEN 1 ELSE n * Factorial(n - 1)

\* C14: every call makes a fresh, empty frame and leaves every frame that exists
\* unchanged; the running activations (recursive ones included) all have frames
\* of their own; binding a parameter changes only the frame of the call being
\* made and a `let` only the active frame.  So fact(b), which reads its n and its
\* local m after the recursive call has returned, gives b!, the global frame holds
\* nothing but what the top level declared, and the top-level n and m are still 50
\* and 60.
C14_FreshFramePerCall ==
    /\ [][(AtEval("Call") /\ status' = "running") =>
            /\ Len(frames') = Len(frames) + 1
            /\ DOMAIN frames'[Len(frames')].b = {}
            /\ \A f \in 1..Len(frames) : frames'[f] = frames[f]]_vars
    /\ [][At("setParam") =>
            /\ \A i \in 1..Len(Activations) : Activations[i] # Top.callEnv
            /\ \A f \in 1..Len(frames) : f # Top.callEnv => frames'[f] = frames[f]]_vars
    /\ [][At("declare") => \A f \in 1..Len(frames) : f # env => frames'[f] = frames[f]]_vars
    /\ [](\A i, j \in 1..Len(Activations) : i # j => Activations[i] # Activations[j])
    /\ [](input.fam = "recursion" =>
            /\ DOMAIN frames[GlobalEnv].b
                  \subseteq (IF input.c = 1 THEN {"n", "m", "fact"} ELSE {"fact"})
            /\ status # "error"
            /\ Done => printSink = <<ToString(Factorial(input.b))>>
                                   \o (IF input.c = 1 THEN <<"50", "60">> ELSE <<>>))

\* C14 witness: fact(3) has returned 6 through two recursive calls and the top
\* level still reads its own n and m.
C14_Witness ==
    /\ input.fam = "recursion" /\ input.b = 3 /\ input.c = 1
    /\ Done
    /\ Len(frames) = 4
    /\ printSink = <<"6", "50", "60">>

\* C15: the recursive function countdown of the family "countdown" is accepted and
\* countdown(b) terminates with the value 0, for b = 0, 1, 2: every evaluation
\* that ends has printed 0.
C15_CountdownReturnsZero ==
    (input.fam = "countdown" /\ Finished) => (Done /\ printSink = <<"0">>)

\* What the programs of the family "callstmt" are to print.
CallStmtPrints(a) == IF a = 2 THEN <<"2", "1", "Blast off!">> ELSE <<"Hello there!">>

\* C16: a call on a line of its own is accepted and runs the body of the function
\* once: `greet()` after the definition of greet prints its line, and the
\* documented countdown, which calls itself by such a statement inside a block,
\* prints 2, 1 and Blast off! for countdown(2).
C16_CallStatement ==
    (input.fam = "callstmt" /\ Finished) =>
        (Done /\ printSink = CallStmtPrints(input.a))

\* C17: a drawing statement, a style statement or `finish svg` executed before
\* any `start svg` fails: each program of the family "early" ends in an error and
\* its next statement does not run.
C17_NothingBeforeStart ==
    (input.fam = "early" /\ Finished) => (status = "error" /\ printSink = <<>>)

\* A document of the given width and height (as texts) and elements.
Document(w, h, elems) ==
    "<svg xmlns=\"http://www.w3.org/2000/svg\" width=\"" \o w \o "\" height=\"" \o h
        \o "\" viewBox=\"0 0 " \o w \o " " \o h \o "\">\n"
        \o (CASE Len(elems) = 0 -> ""
              [] Len(elems) = 1 -> elems[1]
              [] Len(elems) = 2 -> elems[1] \o "\n" \o elems[2]
              [] Len(elems) = 3 -> elems[1] \o "\n" \o elems[2] \o "\n" \o elems[3]
              [] OTHER -> elems[1] \o "\n" \o elems[2] \o "\n" \o elems[3] \o "\n"
                          \o elems[4])
        \o "\n</svg>"

\* The documents the programs of the families "example" and "doc" are to return.
DocExpected(in) ==
    IF in.fam = "example"
    THEN "<svg xmlns=\"http://www.w3.org/2000/svg\" width=\"200\" height=\"200\" "
         \o "viewBox=\"0 0 200 200\">\n"
         \o "<circle fill=\"black\" cx=\"100\" cy=\"100\" r=\"50\" />\n</svg>"
    ELSE CASE in.a = 1 ->
                Document("300", "200",
                    << "<line fill=\"black\" x1=\"0\" y1=\"0\" x2=\"5\" y2=\"5\" "
                       \o "stroke=\"black\" stroke-width=\"1\" />",
                       "<text x=\"1\" y=\"2\" font-size=\"14\" fill=\"black\">a&lt;b</text>" >>)
           [] in.a = 2 ->
                Document("10", "10",
                    << "<rect fill=\"black\" x=\"1\" y=\"2\" width=\"3\" height=\"4\" />" >>)
           [] in.a = 3 ->
                Document("50", "50",
                    << "<circle fill=\"black\" cx=\"10\" cy=\"0\" r=\"1\" />",
                       "<circle fill=\"black\" cx=\"20\" cy=\"0\" r=\"2\" />",
                       "<circle fill=\"black\" cx=\"30\" cy=\"0\" r=\"3\" />" >>)
           [] OTHER -> Document("10", "10", <<>>)

\* C18: a program that ends without error and has executed `start svg` returns a
\* document whose root has the width and height of the last `start svg` and whose
\* body has one element for each drawing statement executed since then, in the
\* order of execution; what was drawn before that start (or before any start) is
\* not in it.  The example start 200 x 200, circle at (100, 100) radius 50
\* returns width 200, height 200 and that one circle.
C18_DocumentOfLastStart ==
    input.fam \in {"example", "doc"} =>
        /\ status # "error"
        /\ Done => result = DocExpected(input)

\* C18 witness: the program that draws, starts anew and draws a line and a text
\* has returned the document of the second start with these two elements.
C18_Witness ==
    /\ input.fam = "doc" /\ input.a = 1
    /\ Done
    /\ Len(svg.body) = 2
    /\ svg.width = NumV(300)
    /\ result = DocExpected(input)

\* The elements of the shapes of frequent use under a given fill and stroke.
CircleElem(style) == "<circle " \o style \o " cx=\"1\" cy=\"2\" r=\"3\" />"
RectElem(style) == "<rect " \o style \o " x=\"1\" y=\"2\" width=\"3\" height=\"4\" />"
LineElem(style, more) ==
    "<line " \o style \o " x1=\"0\" y1=\"0\" x2=\"5\" y2=\"5\"" \o more \o " />"
TextElem(style) == "<text x=\"1\" y=\"2\" " \o style \o ">hi</text>"
\* The stroke a line drawn without a stroke gets.
LineDefault == " stroke=\"black\" stroke-width=\"1\""

\* The documents of the family "style", each element with the style in effect when
\* it was drawn; lineStroke is what a line drawn with no stroke set carries.
StyleExpected(a, lineStroke) ==
    Document("100", "100",
        CASE a = 1 -> << CircleElem("fill=\"black\""), CircleElem("fill=\"red\""),
                         RectElem("fill=\"none\" stroke=\"blue\" stroke-width=\"2\""),
                         TextElem("fill=\"none\"") >>
          [] a = 2 -> << LineElem("fill=\"black\" stroke=\"navy\" stroke-width=\"3\"", ""),
                         CircleElem("fill=\"gold\"") >>
          [] OTHER -> << LineElem("fill=\"black\"", lineStroke),
                         LineElem("fill=\"black\" stroke=\"red\" stroke-width=\"2\"", "") >>)

\* A style statement completes, a drawing statement completes.
StyleStep == At("useFill") \/ At("useStroke") \/ AtExec("NoFill") \/ AtExec("NoStroke")
Style(b) == <<b.fill, b.stroke, b.strokeWidth>>

\* What every step of every program does to the elements and the current style:
\* a drawing statement adds one element after the others and keeps the style, a
\* style statement keeps the elements, and nothing but these and `start svg`
\* changes either.
StyleFrame ==
    /\ [][At("draw") =>
            /\ Len(svg'.body) = Len(svg.body) + 1
            /\ SubSeq(svg'.body, 1, Len(svg.body)) = svg.body
            /\ Style(svg') = Style(svg)]_vars
    /\ [][(StyleStep /\ status' = "running") =>
            /\ svg'.body = svg.body
            /\ IF At("useFill") \/ AtExec("NoFill")
               THEN svg'.stroke = svg.stroke /\ svg'.strokeWidth = svg.strokeWidth
               ELSE svg'.fill = svg.fill]_vars
    /\ [][svg'.body # svg.body => (At("draw") \/ At("startHeight"))]_vars
    /\ [][Style(svg') # Style(svg) => StyleStep]_vars

\* C19, as claimed: every element of the returned document carries the fill, the
\* stroke colour and the stroke width in effect when it was drawn, a line drawn
\* with no stroke set carrying no stroke; style statements leave the elements
\* drawn before them as they are.
C19_StyleSnapshot ==
    /\ StyleFrame
    /\ []((input.fam = "style" /\ Done) => result = StyleExpected(input.a, ""))

\* C19, amended: as claimed, except that a line drawn while no stroke is set
\* carries the stroke black of width 1.
C19_StyleSnapshotLineDefault ==
    /\ StyleFrame
    /\ [](input.fam = "style" => status # "error")
    /\ []((input.fam = "style" /\ Done) => result = StyleExpected(input.a, LineDefault))

\* C19 witness: the program that changes fill and stroke between its four shapes
\* has returned them, each in the style of its moment.
C19_Witness ==
    /\ input.fam = "style" /\ input.a = 1
    /\ Done
    /\ Len(svg.body) = 4
    /\ svg.fill = StrV("green")
    /\ result = StyleExpected(1, LineDefault)

\* The element of shape a (1 circle, 2 rect, 3 line, 4 text) drawn with fill red
\* (b = 1) or absent and stroke blue of width 2 (c = 1) or absent: fill="none" for
\* an absent fill, no stroke attributes for an absent stroke but for lineStroke on
\* a line.
ShapeExpected(a, b, c, lineStroke) ==
    LET style == (IF b = 1 THEN "fill=\"red\"" ELSE "fill=\"none\"")
                 \o (IF c = 1 THEN " stroke=\"blue\" stroke-width=\"2\"" ELSE "")
    IN  CASE a = 1 -> CircleElem(style)
          [] a = 2 -> RectElem(style)
          [] a = 3 -> LineElem(style, IF c = 1 THEN "" ELSE lineStroke)
          [] OTHER -> TextElem(style)

\* C20, as claimed: for circle, rect, line and text alike the element has
\* fill="none" when the fill is absent and neither stroke nor stroke-width when
\* the stroke is absent.
C20_AbsentStyleAttributes ==
    (input.fam = "shape" /\ Done) =>
        svg.body = <<ShapeExpected(input.a, input.b, input.c, "")>>

\* C20, amended: so for circle, rect and text; a line has fill="none" for an absent
\* fill too, but with the stroke absent it carries stroke="black" and
\* stroke-width="1" after its coordinates.
C20_AbsentStyleAttributesLineDefault ==
    input.fam = "shape" =>
        /\ status # "error"
        /\ Done =>
              /\ svg.body = <<ShapeExpected(input.a, input.b, input.c, LineDefault)>>
              /\ result = Document("10", "10", svg.body)

\* C20 witness: a line drawn with neither fill nor stroke has been returned.
C20_Witness ==
    /\ input.fam = "shape" /\ input.a = 3 /\ input.b = 0 /\ input.c = 0
    /\ Done
    /\ svg.body = <<"<line fill=\"none\" x1=\"0\" y1=\"0\" x2=\"5\" y2=\"5\" "
                     \o "stroke=\"black\" stroke-width=\"1\" />">>

\* The truth of the operands of the family "logic": true, a nonzero number and a
\* non-empty string are true; false, zero, the empty string, null and a function
\* are false.
OperandTruth == <<TRUE, FALSE, FALSE, TRUE, FALSE, TRUE, FALSE, FALSE>>

\* C21: `a and b` and `a or b` evaluate both operands whatever the left one is:
\* the call in the right operand has made its assignment (n is 1) when the result
\* is printed, an error in the right operand ends the program, and the result is
\* the boolean and / or of the operands' truth.
C21_EagerAndOr ==
    input.fam = "logic" =>
        IF input.d = 0
        THEN /\ status # "error"
             /\ Done =>
                   LET l == OperandTruth[input.a]
                       r == OperandTruth[input.c]
                       v == IF input.b = 0 THEN l /\ r ELSE l \/ r
                   IN  printSink = <<IF v THEN "true" ELSE "false", "1">>
        ELSE Finished =>
                /\ status = "error"
                /\ err = "Undefined variable 'boom'"
                /\ printSink = <<>>

\* C21 witness: `false and mark("s")` has printed false after the call of mark.
C21_Witness ==
    /\ input.fam = "logic" /\ input.a = 2 /\ input.b = 0 /\ input.c = 6 /\ input.d = 0
    /\ Done
    /\ printSink = <<"false", "1">>

\* The text s is among the lines printed.
Printed(s) == \E i \in 1..Len(printSink) : printSink[i] = s

\* C22: an error is terminal and leaves no partial output.  Once a statement or
\* an expression has failed nothing more is executed and no document is returned:
\* in every program, and in those of the family "fail", whose failing statement
\* comes after a start and a circle, the later print and rect do not run and the
\* circle drawn is not handed out.
C22_ErrorsAreTerminal ==
    /\ status = "error" => (result = "" /\ kont = <<>> /\ err # "")
    /\ (input.fam = "fail" /\ Finished) =>
            /\ status = "error"
            /\ result = ""
            /\ ~Printed("after")
            /\ svg.started
            /\ svg.body = <<CircleElem("fill=\"black\"")>>

\* C22 witness: the circle with a text for a coordinate has failed after the
\* start and the first circle.
C22_Witness ==
    /\ input.fam = "fail" /\ input.a = 3
    /\ status = "error"
    /\ err = "Expected number, got string"
    /\ svg.started
    /\ Len(svg.body) = 1
    /\ result = ""

\* C26: after a call has finished (its body ran to its end, executed give back,
\* or failed) the active environment is the one of the call site.  With no call
\* running, and when the program has ended, it is the global frame; g's own x
\* (10) is what g sees after its call of f(x + 1), and the top level's x (1) is
\* what is printed last.
C26_EnvironmentRestored ==
    /\ (Running /\ ActiveCalls = <<>>) => env = GlobalEnv
    /\ Finished => env = GlobalEnv
    /\ (input.fam = "restore" /\ Finished) =>
            CASE input.a = 1 -> status = "done" /\ printSink = <<"11", "10", "1">>
              [] input.a = 2 -> status = "done" /\ printSink = <<"10", "1">>
              [] OTHER -> status = "error" /\ err = "Undefined variable 'boom'"
                          /\ printSink = <<>>

\* C26 witness: g has returned its own x after f ran to its end with another.
C26_Witness ==
    /\ input.fam = "restore" /\ input.a = 1
    /\ Done
    /\ Len(frames) = 3
    /\ env = GlobalEnv
    /\ printSink = <<"11", "10", "1">>

\* C27: a give back executed while no call is active (at top level, in a top-level
\* if or loop) aborts the evaluation: the entry point fails with the return
\* signal (its message is "return"), the statements after it do not run and no
\* document is returned, start svg executed or not.
C27_TopLevelGiveBack ==
    (input.fam = "toplevel" /\ Finished) =>
        /\ status = "error"
        /\ err = "return"
        /\ result = ""
        /\ ~Printed("after")
        /\ Len(svg.body) = input.b

\* C27 witness: give back inside a top-level repeat, after start svg and a circle.
C27_Witness ==
    /\ input.fam = "toplevel" /\ input.a = 4 /\ input.b = 1
    /\ status = "error"
    /\ err = "return"
    /\ printSink = <<"in">>
    /\ svg.started

\* C23: `not` reverses a condition: `if not x == 0:` takes its first branch
\* exactly when x == 0 is false, for x = 0, 1 and 5.
C23_NotReversesCondition ==
    (input.fam = "notcond" /\ Finished) =>
        (Done /\ printSink = <<IF input.a = 0 THEN "zero" ELSE "nonzero">>)

\* C24: the example of Loops.md prints ten lines, x is now 10 through x is now
\* 100.
C24_DocumentedLoopOutput ==
    (input.fam = "docloop" /\ Finished) =>
        /\ Done
        /\ printSink = << "x is now 10", "x is now 20", "x is now 30", "x is now 40",
                          "x is now 50", "x is now 60", "x is now 70", "x is now 80",
                          "x is now 90", "x is now 100" >>

\* C25: a parse error names what was expected and the position of the offending
\* token, also when the malformed statement is in the body of a
\* `repeat <count> times` loop: `let x 5` on line 2 is reported as a missing `be`
\* at the 5 of line 2, at top level and inside the loop alike.
C25_ParseErrorPosition ==
    (input.fam = "badbody" /\ Finished) =>
        /\ status = "error"
        /\ err = "Parse error: expected 'be' after variable name in 'let' at 2:8"

\* What the programs of the family "finish" are to return.
FinishExpected(a) ==
    CASE a = 1 -> Document("10", "10",
                           <<CircleElem("fill=\"black\""), RectElem("fill=\"black\"")>>)
      [] a = 3 -> ""
      [] a = 5 -> Document("10", "10", <<>>)
      [] OTHER -> Document("10", "10", <<CircleElem("fill=\"black\"")>>)

\* C28: `finish svg` changes nothing of the builder and produces nothing; the
\* document is made only when the program ends, and then exactly when a start svg
\* was executed, finish svg or not; what is drawn after finish svg is in it; a
\* program that never started returns the empty string.
C28_FinishSvgIsNoOp ==
    /\ [][AtExec("FinishSvg") =>
            /\ svg' = svg
            /\ result' = result
            /\ printSink' = printSink
            /\ status' = "running"]_vars
    /\ [][result' # result => (Running /\ kont = <<>> /\ status' = "done")]_vars
    /\ [](Done => (svg.started <=> result # ""))
    /\ []((input.fam = "finish" /\ Finished) =>
            (Done /\ result = FinishExpected(input.a)))

\* C28 witness: the rect drawn after finish svg has been returned with the circle
\* drawn before it.
C28_Witness ==
    /\ input.fam = "finish" /\ input.a = 1
    /\ Done
    /\ Len(svg.body) = 2
    /\ result = FinishExpected(1)

(***************************************************************************)
(* The live preview.                                                       *)
(***************************************************************************)
\* Effect i belongs to the text in the editor.
Current(i) == i = Len(effects)

\* C29: once the source text has changed, nothing of the compile started
\* for the earlier text changes what is displayed: whenever the SVG or the
\* error message is set, it is set either by the user typing the markup (no
\* compile takes part) or by the effect of the present text, which is not
\* cancelled; and a text replaced while its debounce timer was pending is
\* never handed to a worker or to the entry point.
C29_StaleCompileShowsNothing ==
    /\ [][(svgText' # svgText \/ compileError' # compileError \/ setter' # setter)
            => \/ /\ setter' = 0
                  /\ svgText' \in TypedSvg
                  /\ compileError' = compileError
                  /\ effects' = effects
               \/ /\ setter' = Len(effects)
                  /\ ~effects[setter'].cancelled
                  /\ effects[setter'].langText = langText
                  /\ langText' = langText]_vars
    /\ [](\A i \in 1..Len(effects) :
            effects[i].tid = "cleared"
                => /\ i \notin compiled
                   /\ effects[i].worker = "none"
                   /\ \A k \in 1..Len(posted) : posted[k].id # i)

\* Nothing was ever displayed, although the reply of the compile of an
\* earlier text was handled, the text after it was replaced within its
\* debounce, and the timeout of a cancelled compile fired.
C29_Witness ==
    /\ setter = 0 /\ svgText = "" /\ compileError = NoError
    /\ ~hung
    /\ \E i, k \in 1..(Len(effects) - 1) :
            /\ effects[i].cancelled /\ effects[i].finished
            /\ effects[k].tid = "cleared"
    /\ \E j \in 1..Len(effects) : effects[j].cancelled /\ effects[j].to = "fired"

\* The reply at the head of the queue of effect i is handled in this step.
Handles(i) == effects[i].outbox # <<>> /\ ~effects[i].finished /\ effects'[i].finished

\* C30: the host posts compile messages only; a worker without
\* compileAndRenderSVG answers every request with ok:false and the text
\* 'compileAndRenderSVG not available in worker'; on that reply the host
\* (if the text is still the present one) calls the entry point itself, with
\* the timer cleared and the worker terminated, so that a call that does
\* not return blocks the host for good; and for each request at most one of
\* reply handled and timed out happens, the worker being terminated in both.
C30_WorkerFallback ==
    /\ [](\A k \in 1..Len(posted) : posted[k].type = "compile")
    /\ [](~workerCompile =>
            \A i \in 1..Len(effects) : \A k \in 1..Len(effects[i].outbox) :
                /\ ~effects[i].outbox[k].ok
                /\ effects[i].outbox[k].error = NotAvailable
                /\ effects[i].outbox[k].id = effects[i].id)
    /\ [][~workerCompile =>
            \A i \in 1..Len(effects) :
                (effects[i].inbox # <<>> /\ effects'[i].inbox = <<>>
                    /\ effects'[i].worker = "running")
                    => Len(effects'[i].outbox) = Len(effects[i].outbox) + 1]_vars
    /\ [][\A i \in 1..Len(effects) :
            (Handles(i) /\ Head(effects[i].outbox).error = NotAvailable
                /\ ~effects[i].cancelled)
                => /\ effects'[i].to = "cleared"
                   /\ effects'[i].worker = "terminated"
                   /\ LET o == Outcome(effects[i].langText)
                      IN  IF o.returns
                          THEN /\ ~hung'
                               /\ setter' = i
                               /\ compileError' = IF o.ok THEN NoError ELSE o.error
                               /\ svgText' = IF o.ok THEN o.svg ELSE svgText
                          ELSE hung']_vars
    /\ [][hung => /\ hung'
                  /\ svgText' = svgText /\ compileError' = compileError
                  /\ langText' = langText
                  /\ \A i \in 1..Len(effects) : effects'[i].to = effects[i].to]_vars
    /\ [](\A i \in 1..Len(effects) :
            /\ ~(effects[i].finished /\ effects[i].to = "fired")
            /\ (effects[i].finished \/ effects[i].to = "fired")
                    => effects[i].worker = "terminated")

\* The host is blocked in the fallback for a text whose worker had no
\* compileAndRenderSVG, after the request of an earlier text had timed out.
C30_Witness ==
    /\ hung
    /\ ~workerCompile
    /\ \E i, j \in 1..Len(effects) :
            /\ Current(i) /\ effects[i].finished /\ effects[i].to = "cleared"
            /\ effects[i].worker = "terminated"
            /\ effects[j].to = "fired" /\ compileError = TimedOut /\ setter = j

=============================================================================
